---------------------------- MODULE Spec2Model ----------------------------
(***************************************************************************)
(* Model of the resilient fetch-and-traverse engine of the forum parser:   *)
(*   - MemoryCache            (src/utils.py)   bounded TTL cache           *)
(*   - RetryManager,                                                       *)
(*     OptimizedHttpClient    (src/utils.py)   retry policy and fetcher    *)
(*   - VinskiyForumParser     (src/vinskiy_parser.py) traversal loops      *)
(*                                                                         *)
(* The module holds these specifications over one set of variables:        *)
(*   SpecCache   the MemoryCache alone, driven by arbitrary get/put/clear  *)
(*               calls and a clock;                                        *)
(*   SpecFetch   OptimizedHttpClient.get_page with its retry sequence,     *)
(*               driven by arbitrary transport outcomes;                   *)
(*   Spec        the page-by-page traversals of VinskiyForumParser, with   *)
(*               get_page reduced to its contract (a page or None);        *)
(*   SpecThreads threads calling one MemoryCache, lock step by lock step;  *)
(*   SpecClients threads calling get_page on one client;                   *)
(*   SpecDelay   RetryManager._calculate_delay over exponential policies;  *)
(*   SpecTopic   parse_topic over get_page run step by step;               *)
(*   SpecTwice   parse_forum run twice on one parser over the same pages;  *)
(*   SpecStream  parse_topic_streaming with a sink whose writes may fail;  *)
(*   SpecForum   main and parse_entire_forum: the listing, the output file, *)
(*               the topic loop and the process exit status;               *)
(*   SpecNoCache main with its options and the get_page calls of the run;  *)
(*   SpecExtract extract_topic_links called on one page after another;     *)
(*   SpecPagination the resolvers of OptimizedPaginationHandler called on  *)
(*               one page after another.                                   *)
(* Optional values (Python None) are sequences of length 0 or 1 where the  *)
(* value is structured, and the string "None" where it is a URL.           *)
(***************************************************************************)
EXTENDS Integers, Sequences, FiniteSets, TLC

VARIABLES
    \* ---- MemoryCache (src/utils.py:209) ----
    cache,      \* MemoryCache._data: OrderedDict as a sequence, oldest first
    now,        \* time.time(), in whole ticks
    put_rec,    \* history: for each key in the map, the arguments of its last put
    use_order,  \* history: keys of the map, least recently used first, where a
                \* use is an insertion, a re-insertion by put or a successful get
    c_call      \* history: the last call of get, put or clear: its name and,
                \* for a put, its key and what the map was like before it

cacheVars == <<cache, now, put_rec, use_order, c_call>>

VARIABLES
    \* ---- OptimizedHttpClient / RetryManager (src/utils.py:133, 271) ----
    config,         \* RetryManager.config: the RetryConfig of the client
    metrics,        \* OptimizedHttpClient.metrics: PerformanceMetrics counters
    f_pc,           \* where get_page is: "idle", "invoke" (about to call func),
                    \* "sleep" (about to time.sleep(delay))
    f_args,         \* the arguments of the running get_page: [url, use_cache]
    attempt,        \* the loop variable of execute_with_retry
    last_exception, \* execute_with_retry's last_exception (<<>> is None)
    delay,          \* the delay computed for the pending time.sleep
    f_ret,          \* how the last get_page ended: [kind, soup, exc]
    retry,          \* history of the running retry sequence: invocations of
                    \* func, sleeps done, the last transport outcome, how
                    \* execute_with_retry ended
    m_at_call,      \* history: the metrics when the last get_page was called
    calls           \* history: number of get_page calls so far

fetchVars == <<config, metrics, f_pc, f_args, attempt, last_exception, delay,
               f_ret, retry, m_at_call, calls>>

VARIABLES
    \* ---- VinskiyForumParser (src/vinskiy_parser.py:20) ----
    consecutive_failures,   \* self.consecutive_failures
    total_failures,         \* self.total_failures
    is_interrupted,         \* self.is_interrupted
    t_pc,           \* the traversal: "idle" (none yet), "loop" (at the head of
                    \* the while loop), "done" (returned), "raised"
    kind,           \* the running method: "parse_forum", "parse_topic",
                    \* "parse_topic_streaming"
    current_url,    \* local current_url ("None" is None)
    page_count,     \* local page_count
    failed_pages,   \* local failed_pages
    all_topics,     \* parse_forum's all_topics: a dict title -> url
    all_posts,      \* parse_topic's all_posts: a list of posts
    total_posts,    \* parse_topic_streaming's total_posts
    sink,           \* the file parse_topic_streaming appends to: posts written
    result,         \* what the traversal returned or raised: [how, val]
    traversals,     \* history: traversals started on this parser
    fetches,        \* history: get_page calls of the running traversal
    last,           \* history: the last iteration: what happened (ev), the url
                    \* fetched, what the resolver returned (next), the
                    \* failure counters before it, and the delay passed to
                    \* sleep_with_jitter after it (0 when it did not sleep)
    tripped,        \* history: <<n>> once a page failure brought
                    \* consecutive_failures to the threshold, n the number of
                    \* get_page calls made by then
    gathered,       \* history: the records extracted from the pages so far
    sleeps,         \* history: sleep_with_jitter calls of the running traversal
    visited,        \* history: the URLs fetched by the running traversal
    revisit         \* history: the resolver returned a URL fetched before

crawlVars == <<consecutive_failures, total_failures, is_interrupted, t_pc, kind,
               current_url, page_count, failed_pages, all_topics, all_posts,
               total_posts, sink, result, traversals, fetches, last, tripped,
               gathered, sleeps, visited, revisit>>

VARIABLES
    \* ---- threads calling one MemoryCache (src/utils.py:222-268) ----
    lock,           \* self._lock: 0 when free, else the thread that holds it
    th,             \* per thread: where it is in its call (pc), the call and
                    \* its arguments (op, k, v), the value it returns (ret),
                    \* and, as history, the map it found on entry (c0)
    ops             \* history: calls started so far

threadVars == <<lock, th, ops>>

VARIABLES
    \* ---- history of the runs of one parser ----
    served,         \* what get_page gave the first traversal, call by call:
                    \* the url asked for and the soup returned, <<>> for
                    \* None, <<pg>> for the page pg
    first_result,   \* <<r>> once a second traversal started, r what the
                    \* first one returned
    write_failures  \* write_post calls of the running traversal that raised

VARIABLES
    \* ---- main and parse_entire_forum (src/vinskiy_parser.py:320, 832) ----
    o_pc,             \* where the run is: "idle", "listing" (in parse_forum),
                      \* "topics" (top of the topic loop), "streaming" (in
                      \* parse_topic_streaming), "finish" (after the loop),
                      \* "returned" (parse_entire_forum returned), "exited"
    topic_list,       \* list(topics.items()): the titles, in dict order
    topic_urls,       \* the dict topics itself
    topic_i,          \* the loop variable i
    forum_total_posts,\* parse_entire_forum's total_posts
    processed_topics, \* parse_entire_forum's processed_topics
    failed_topics,    \* parse_entire_forum's failed_topics
    out_file,         \* the forum file: headers and posts appended so far
    parse_result,     \* <<r>> once parse_entire_forum returned the ParseResult r
    exit_code,        \* <<n>> once main returned n
    stopped_by,       \* history: what ended the run: "threshold" (the break
                      \* of the topic loop after _should_continue_after_error),
                      \* "interrupt", "exhausted" (no topic left), "error"
    expected_file     \* history: for each topic started, its header followed
                      \* by the records extracted and written page by page

forumVars == <<o_pc, topic_list, topic_urls, topic_i, forum_total_posts,
               processed_topics, failed_topics, out_file, parse_result,
               exit_code, stopped_by, expected_file>>

VARIABLES
    \* ---- OptimizedHtmlParser and OptimizedPaginationHandler (src/parsers.py) ----
    url_cache,      \* OptimizedPaginationHandler.url_cache._data
    parse_cache,    \* OptimizedHtmlParser.cache._data
    p_call,         \* history: the last call of a handler method: its name,
                    \* its arguments and what it returned
    no_cache        \* args.no_cache of the run: the --no-cache option

handlerVars == <<url_cache, parse_cache, p_call>>

runVars == <<served, first_result, write_failures, forumVars, handlerVars, no_cache>>

vars == <<cacheVars, fetchVars, crawlVars, threadVars, runVars>>

-----------------------------------------------------------------------------
(* Bounds of the model *)

\* MemoryCache(max_size=...): the capacity the modelled instance is built with
max_size == 3
\* MemoryCache(default_ttl=...): the default time-to-live, in ticks
default_ttl == 1
\* the clock stops here
MaxTime == 2

\* RetryConfig.max_attempts ranges over 1..MaxAttempts
MaxAttempts == 3
\* get_page is called at most MaxCalls times
MaxCalls == 2
\* Config.MAX_PAGES (50 in src/config.py:44), scaled down
MAX_PAGES == 4
\* Config.MAX_CONSECUTIVE_FAILURES (5 in src/config.py:101), scaled down
MAX_CONSECUTIVE_FAILURES == 3
\* traversals run one after the other on one parser
MaxTraversals == 2
\* calls the threads make on the shared cache, all threads together
MaxOps == 4
\* _calculate_delay is applied to the attempt numbers 0..MaxAttemptNumber
MaxAttemptNumber == 5
\* Config.RETRY_MAX_ATTEMPTS
RETRY_MAX_ATTEMPTS == 3

KEYS == {"k1", "k2", "k3", "k4"}
\* The cached values are opaque to the cache and the keys are interchangeable, so
\* it is enough that one key is given two different values.
VALUES(k) == IF k = "k1" THEN {"v1", "v2"} ELSE {"v1"}

\* the ttl argument of put: absent (None) or a number of ticks
NoTtl == [some |-> FALSE, v |-> 0]
SomeTtl(t) == [some |-> TRUE, v |-> t]
TtlArgs == {NoTtl, SomeTtl(0), SomeTtl(default_ttl + 1)}

-----------------------------------------------------------------------------
(* MemoryCache *)

\* CacheEntry.is_expired: time.time() - self.timestamp > self.ttl
is_expired(e, t) == t - e.timestamp > e.ttl

CacheKeys(c) == {c[i].key : i \in 1..Len(c)}

IndexOf(c, k) == CHOOSE i \in 1..Len(c) : c[i].key = k

RemoveAt(s, i) == SubSeq(s, 1, i - 1) \o SubSeq(s, i + 1, Len(s))

\* OrderedDict.move_to_end(key)
move_to_end(c, k) ==
    LET i == IndexOf(c, k) IN RemoveAt(c, i) \o <<c[i]>>

\* MemoryCache.get: the value returned (<<>> is None)
get_ret(c, k, t) ==
    IF k \notin CacheKeys(c) THEN <<>>
    ELSE LET e == c[IndexOf(c, k)] IN
         IF is_expired(e, t) THEN <<>> ELSE <<e.data>>

\* a get that sweeps every expired entry and moves nothing
get_data_sweeping(c, k, t) == SelectSeq(c, LAMBDA e : ~is_expired(e, t))

\* MemoryCache.get: the map after the call
get_data(c, k, t) ==
    IF k \notin CacheKeys(c) THEN c
    ELSE LET i == IndexOf(c, k) IN
         IF is_expired(c[i], t) THEN RemoveAt(c, i)
         ELSE move_to_end(c, k)

\* a sweep that removes nothing
cleanup_nothing(c, t) == c

\* MemoryCache._cleanup_expired
cleanup_expired(c, t) ==
    SelectSeq(c, LAMBDA e : ~(t - e.timestamp > e.ttl))

\* while len(self._data) >= self.max_size: self._data.popitem(last=False)
RECURSIVE evict_oldest(_)
evict_oldest(c) ==
    IF Len(c) >= max_size /\ Len(c) > 0 THEN evict_oldest(Tail(c)) ELSE c

\* ttl or self.default_ttl: None and 0 are both falsy
effective_ttl(ttl) == IF ttl.some /\ ttl.v # 0 THEN ttl.v ELSE default_ttl

\* self._data[key] = entry: an existing key keeps its place in the OrderedDict
set_item(c, e) ==
    IF e.key \in CacheKeys(c)
    THEN [c EXCEPT ![IndexOf(c, e.key)] = e]
    ELSE Append(c, e)

\* MemoryCache.put: the map after the call
put_data(c, k, v, ttl, t) ==
    set_item(evict_oldest(cleanup_expired(c, t)),
             [key |-> k, data |-> v, timestamp |-> t, ttl |-> effective_ttl(ttl)])

-----------------------------------------------------------------------------
(* History of the cache calls *)

Restrict(f, S) == [x \in S \cap DOMAIN f |-> f[x]]

\* the keys of order s that are still in the map c
KeepKeys(s, c) == SelectSeq(s, LAMBDA k : k \in CacheKeys(c))

Touch(s, k) == SelectSeq(s, LAMBDA x : x # k) \o <<k>>

\* a call on the map c at time t, as the history keeps it: its name and, for a
\* put, its key, whether the key was in the map, whether the map held max_size
\* entries, whether one of them was expired, and whether the oldest entry of
\* the OrderedDict was unexpired
Called(op, k, c, t) ==
    IF op = "put"
    THEN [op |-> op, key |-> k,
          had_key |-> k \in CacheKeys(c),
          full0 |-> Len(c) >= max_size,
          expired0 |-> \E i \in 1..Len(c) : is_expired(c[i], t),
          head_live0 |-> (c # <<>> /\ ~is_expired(c[1], t))]
    ELSE [op |-> op, key |-> "none", had_key |-> FALSE, full0 |-> FALSE,
          expired0 |-> FALSE, head_live0 |-> FALSE]

InitCache ==
    /\ cache = <<>>
    /\ now = 0
    /\ put_rec = <<>>
    /\ use_order = <<>>
    /\ c_call = Called("none", "none", <<>>, 0)

\* a caller runs get(k)
Get(k) ==
    /\ cache' = get_data(cache, k, now)
    /\ put_rec' = Restrict(put_rec, CacheKeys(cache'))
    /\ use_order' = IF get_ret(cache, k, now) # <<>>
                    THEN Touch(use_order, k)
                    ELSE KeepKeys(use_order, cache')
    /\ c_call' = Called("get", k, cache, now)
    /\ UNCHANGED <<now, fetchVars, crawlVars, threadVars, runVars>>

\* a caller runs put(k, v, ttl)
Put(k, v, ttl) ==
    /\ cache' = put_data(cache, k, v, ttl, now)
    /\ put_rec' = [x \in CacheKeys(cache') |->
                     IF x = k THEN [v |-> v, p |-> now, ttl |-> ttl]
                     ELSE put_rec[x]]
    /\ use_order' = KeepKeys(Touch(use_order, k), cache')
    /\ c_call' = Called("put", k, cache, now)
    /\ UNCHANGED <<now, fetchVars, crawlVars, threadVars, runVars>>

\* a caller runs clear()
Clear ==
    /\ cache # <<>>
    /\ cache' = <<>>
    /\ put_rec' = <<>>
    /\ use_order' = <<>>
    /\ c_call' = Called("clear", "none", cache, now)
    /\ UNCHANGED <<now, fetchVars, crawlVars, threadVars, runVars>>

\* time passes
Tick ==
    /\ now < MaxTime
    /\ now' = now + 1
    /\ UNCHANGED <<cache, put_rec, use_order, c_call, fetchVars, crawlVars, threadVars, runVars>>

NextCache ==
    \/ \E k \in KEYS : Get(k)
    \/ \E k \in KEYS, ttl \in TtlArgs : \E v \in VALUES(k) : Put(k, v, ttl)
    \/ Clear
    \/ Tick

-----------------------------------------------------------------------------
(* RetryManager and OptimizedHttpClient *)

URLS == {"A", "B"}
BODIES == {"b1"}

\* what the transport (session.get + raise_for_status + BeautifulSoup) does
STATUSES == {200, 403, 404, 429, 500, 501, 502, 503, 504}
OUTCOMES ==
    [t : {"response"}, status : STATUSES]
    \cup [t : {"Timeout", "ConnectionError", "Exception", "KeyboardInterrupt"},
          status : {0}]

Exc(cls, cause) == [cls |-> cls, cause |-> cause]

\* RetryConfig.retryable_exceptions
retryable_exceptions ==
    {"PageNotFoundError", "ConnectionError", "TimeoutError", "RetryableError"}

\* the classes `except Exception` catches: every class of the model but
\* KeyboardInterrupt, which derives from BaseException
is_Exception(e) == e.cls # "KeyboardInterrupt"

\* a retryable set that takes in every Exception
is_retryable_any(e) == is_Exception(e)

\* an empty retryable set
is_retryable_none(e) == FALSE

\* except self.config.retryable_exceptions as e
is_retryable(e) == e.cls \in retryable_exceptions

\* Config.get_retry_config: the strategy is the enum member, not its string value
RETRY_BASE_DELAY == 1000    \* 1.0 s, in milliseconds
RETRY_MAX_DELAY == 30000    \* 30.0 s
RETRY_BACKOFF_FACTOR == 2

\* a backoff factor is a fraction num / den, so that factors below 1 can be told
Factor(num, den) == [num |-> num, den |-> den]

get_retry_config(n) ==
    [max_attempts |-> n,
     strategy |-> "RetryStrategy.EXPONENTIAL_BACKOFF",
     base_delay |-> RETRY_BASE_DELAY,
     max_delay |-> RETRY_MAX_DELAY,
     jitter |-> TRUE,
     backoff_factor |-> Factor(RETRY_BACKOFF_FACTOR, 1)]

Min(a, b) == IF a <= b THEN a ELSE b
Max(a, b) == IF a >= b THEN a ELSE b

RECURSIVE Pow(_, _)
Pow(b, n) == IF n = 0 THEN 1 ELSE b * Pow(b, n - 1)

\* random.uniform(-0.1, 0.1), in percent
JITTERS == {-10, 0, 10}

\* an exponential branch that divides by the power instead of multiplying
calculate_delay_shrinking(cfg, n, j) ==
    Min((cfg.base_delay * Pow(cfg.backoff_factor.den, n))
            \div Pow(cfg.backoff_factor.num, n),
        cfg.max_delay)

\* RetryManager._calculate_delay, with the value j that random.uniform gives
calculate_delay(cfg, n, j) ==
    LET d == IF cfg.strategy = "exponential_backoff"
             THEN Min((cfg.base_delay * Pow(cfg.backoff_factor.num, n))
                          \div Pow(cfg.backoff_factor.den, n),
                      cfg.max_delay)
             ELSE IF cfg.strategy = "linear_backoff"
             THEN Min(cfg.base_delay * (n + 1), cfg.max_delay)
             ELSE cfg.base_delay
    IN IF cfg.jitter THEN Max(0, d + (j * d) \div 100) ELSE d

\* OptimizedHttpClient._make_request: the soup, or the exception raised
make_request(url, o, body) ==
    IF o.t = "response" /\ o.status < 400
    THEN [ok |-> TRUE, soup |-> <<[url |-> url, body |-> body]>>, exc |-> <<>>]
    ELSE [ok |-> FALSE, soup |-> <<>>, exc |-> <<
        IF o.t = "Timeout" THEN Exc("RetryableError", o)
        ELSE IF o.t = "ConnectionError" THEN Exc("RetryableError", o)
        ELSE IF o.t = "response"
        THEN IF o.status \in {429, 500, 502, 503, 504}
             THEN Exc("RetryableError", o)
             ELSE Exc("NonRetryableError", o)
        ELSE IF o.t = "Exception" THEN Exc("NonRetryableError", o)
        ELSE Exc("KeyboardInterrupt", o) >>]

\* OptimizedHttpClient._get_cache_key: the md5 of the url, one key per url
get_cache_key(url) == url

\* PerformanceMetrics.add_request that leaves cached_requests alone
add_request_uncached(m, success, from_cache) ==
    [m EXCEPT !.total_requests = @ + 1,
              !.successful_requests = IF success THEN @ + 1 ELSE @,
              !.failed_requests = IF success THEN @ ELSE @ + 1]

\* PerformanceMetrics.add_request (the time counters are left out)
add_request(m, success, from_cache) ==
    [m EXCEPT !.total_requests = @ + 1,
              !.successful_requests = IF success THEN @ + 1 ELSE @,
              !.failed_requests = IF success THEN @ ELSE @ + 1,
              !.cached_requests = IF from_cache THEN @ + 1 ELSE @]

\* the break test off by one
is_last_attempt_late(cfg, n) == n = cfg.max_attempts

\* if attempt == self.config.max_attempts - 1: break
is_last_attempt(cfg, n) == n = cfg.max_attempts - 1

\* an except clause that names the retryable classes only
get_page_catches_retryable(e) == e.cls \in retryable_exceptions

\* get_page's `except Exception as e`: what it catches
get_page_catches(e) == is_Exception(e)

\* a fetcher that stores every page it fetched, whatever use_cache says
cache_stored_always(use_cache, soup) == soup # <<>>

\* if use_cache and self.cache and soup: self.cache is the MemoryCache built
\* under Config.ENABLE_URL_CACHE, and a soup is <<>> when it is None
cache_stored(use_cache, soup) == use_cache /\ soup # <<>>

\* if use_cache and self.cache
cache_consulted(use_cache) == use_cache

NoRetry == [invocations |-> 0, sleeps |-> 0, outcome |-> <<>>,
            out |-> "none", exc |-> <<>>]

\* OptimizedHttpClient.__init__, the retry policy apart
InitClient ==
    /\ metrics = [total_requests |-> 0, successful_requests |-> 0,
                  failed_requests |-> 0, cached_requests |-> 0,
                  retry_attempts |-> 0]
    /\ f_pc = "idle"
    /\ f_args = [url |-> "None", use_cache |-> FALSE]
    /\ attempt = 0
    /\ last_exception = <<>>
    /\ delay = 0
    /\ f_ret = [kind |-> "none", soup |-> <<>>, exc |-> <<>>]
    /\ retry = NoRetry
    /\ m_at_call = metrics
    /\ calls = 0

InitFetch(n) ==
    /\ config = get_retry_config(n)
    /\ InitClient

\* get_page returns soup (a page, or <<>> for None) without raising
Return(soup, success, from_cache) ==
    /\ f_ret' = [kind |-> IF soup = <<>> THEN "None" ELSE "page",
                 soup |-> soup, exc |-> <<>>]
    /\ metrics' = add_request(metrics, success, from_cache)
    /\ f_pc' = "idle"

\* execute_with_retry raised e: get_page's except clause records the failure
\* and returns None, or the exception leaves get_page
Raised(e) ==
    IF get_page_catches(e)
    THEN Return(<<>>, FALSE, FALSE)
    ELSE /\ f_ret' = [kind |-> "raised", soup |-> <<>>, exc |-> <<e>>]
         /\ f_pc' = "idle"
         /\ UNCHANGED metrics

\* get_page(url, use_cache) is called: the cache lookup, and on a miss the
\* entry into execute_with_retry
GetPageCall(url, use_cache) ==
    /\ f_pc = "idle"
    /\ calls < MaxCalls
    /\ calls' = calls + 1
    /\ f_args' = [url |-> url, use_cache |-> use_cache]
    /\ m_at_call' = metrics
    /\ retry' = NoRetry
    /\ attempt' = 0
    /\ last_exception' = <<>>
    /\ IF cache_consulted(use_cache)
       THEN cache' = get_data(cache, get_cache_key(url), now)
       ELSE UNCHANGED cache
    /\ IF cache_consulted(use_cache) /\ get_ret(cache, get_cache_key(url), now) # <<>>
       THEN Return(get_ret(cache, get_cache_key(url), now), TRUE, TRUE)
       ELSE /\ f_pc' = "invoke"
            /\ UNCHANGED <<f_ret, metrics>>
    /\ delay' = 0
    /\ UNCHANGED <<config, now, put_rec, use_order, c_call, threadVars, runVars>>

\* a caller other than a traversal calls get_page
GetPage(url, use_cache) ==
    GetPageCall(url, use_cache) /\ UNCHANGED <<crawlVars, runVars>>

\* execute_with_retry calls func once; the transport answers o
Invoke(o, body, j) ==
    /\ f_pc = "invoke"
    /\ LET res == make_request(f_args.url, o, body)
           hist == [retry EXCEPT !.invocations = @ + 1, !.outcome = <<o>>]
       IN IF res.ok
          THEN \* return result; get_page stores the page and counts a success
               /\ retry' = [hist EXCEPT !.out = "returned"]
               /\ IF cache_stored(f_args.use_cache, res.soup)
                  THEN cache' = put_data(cache, get_cache_key(f_args.url),
                                         res.soup[1], NoTtl, now)
                  ELSE UNCHANGED cache
               /\ Return(res.soup, TRUE, FALSE)
               /\ UNCHANGED <<last_exception, delay>>
          ELSE LET e == res.exc[1] IN
               IF is_retryable(e)
               THEN /\ last_exception' = <<e>>
                    /\ IF is_last_attempt(config, attempt)
                       THEN \* break; raise last_exception
                            /\ retry' = [hist EXCEPT !.out = "raised", !.exc = <<e>>]
                            /\ Raised(e)
                            /\ UNCHANGED delay
                       ELSE /\ delay' = calculate_delay(config, attempt, j)
                            /\ retry' = hist
                            /\ f_pc' = "sleep"
                            /\ UNCHANGED <<f_ret, metrics>>
                    /\ UNCHANGED cache
               ELSE IF is_Exception(e)
               THEN \* except Exception: raise NonRetryableError(...) from e
                    LET w == Exc("NonRetryableError", e.cause) IN
                    /\ retry' = [hist EXCEPT !.out = "raised", !.exc = <<w>>]
                    /\ Raised(w)
                    /\ UNCHANGED <<last_exception, delay, cache>>
               ELSE \* a BaseException passes through every handler
                    /\ retry' = [hist EXCEPT !.out = "raised", !.exc = <<e>>]
                    /\ Raised(e)
                    /\ UNCHANGED <<last_exception, delay, cache>>
    /\ UNCHANGED <<config, f_args, attempt, m_at_call, calls, now, put_rec,
                   use_order, c_call, crawlVars, threadVars, runVars>>

\* time.sleep(delay), then the next iteration of `for attempt in
\* range(self.config.max_attempts)`; a loop that runs out ends in
\* `raise last_exception`
Sleep ==
    /\ f_pc = "sleep"
    /\ IF attempt + 1 < config.max_attempts
       THEN /\ retry' = [retry EXCEPT !.sleeps = @ + 1]
            /\ attempt' = attempt + 1
            /\ f_pc' = "invoke"
            /\ UNCHANGED <<f_ret, metrics>>
       ELSE /\ retry' = [retry EXCEPT !.sleeps = @ + 1, !.out = "raised",
                                      !.exc = last_exception]
            /\ Raised(last_exception[1])
            /\ UNCHANGED attempt
    /\ UNCHANGED <<config, f_args, last_exception, delay, m_at_call, calls,
                   cacheVars, crawlVars, threadVars, runVars>>

\* time passes while the client is in use
FetchTick ==
    /\ now < MaxTime
    /\ now' = now + 1
    /\ UNCHANGED <<cache, put_rec, use_order, c_call, fetchVars, crawlVars, threadVars, runVars>>

NextFetch ==
    \/ \E url \in URLS, use_cache \in BOOLEAN : GetPage(url, use_cache)
    \/ \E o \in OUTCOMES, body \in BODIES, j \in JITTERS : Invoke(o, body, j)
    \/ Sleep
    \/ FetchTick

-----------------------------------------------------------------------------
(* VinskiyForumParser: the page-by-page traversals (src/vinskiy_parser.py).    *)
(* get_page is taken by its contract: it returns a page or None.  A page is    *)
(* what the extractor and the pagination resolver make of it: the records the  *)
(* extractor returns (or bad, when it raises ContentExtractionError) and the   *)
(* URL the resolver returns for it (next, "None" when it finds none).  The     *)
(* resolvers catch every exception themselves (src/parsers.py:353-387,         *)
(* 469-490), so they return a URL or None for every page.                      *)

PAGE_URLS == {"A", "B", "C"}
\* "A", "B" and "C" stand for http URLs of forum.awd.ru pages (viewforum.php
\* for a listing, viewtopic.php for a topic); "X" is a string with no scheme,
\* no domain and no endpoint marker, which _validate_forum_url rejects
ENTRY_URLS == {"A", "X"}
KINDS == {"parse_forum", "parse_topic", "parse_topic_streaming"}

EmptyDict == [t \in {} |-> "None"]

\* what extract_topic_links returns for a listing page: a dict title -> url
TOPIC_DICTS == {EmptyDict, "t1" :> "x", ("t1" :> "y") @@ ("t2" :> "x")}

\* one post of a topic page; ok is whether it can be converted and written
PostData(id, ok) == [id |-> id, ok |-> ok]

\* what extract_posts_from_page returns for a topic page: a list of posts
POST_LISTS == {<<>>, <<PostData("p1", TRUE)>>, <<PostData("p2", FALSE)>>,
               <<PostData("p1", TRUE), PostData("p2", FALSE), PostData("p3", TRUE)>>}

NoRecords(k) == IF k = "parse_forum" THEN EmptyDict ELSE <<>>

PAGES(k) ==
    [next : PAGE_URLS \cup {"None"},
     recs : IF k = "parse_forum" THEN TOPIC_DICTS ELSE POST_LISTS,
     bad  : {FALSE}]
    \cup [next : PAGE_URLS \cup {"None"}, recs : {NoRecords(k)}, bad : {TRUE}]

validate_forum_url(url) == url \in PAGE_URLS

\* the condition of the while loop
loop_condition_no_cap(url, n, interrupted) == url # "None" /\ ~interrupted

\* a loop condition that does not look at the flag
loop_condition_no_flag(url, n, interrupted) == url # "None" /\ n < MAX_PAGES

loop_condition(url, n, interrupted) ==
    url # "None" /\ n < MAX_PAGES /\ ~interrupted

should_continue_always(cf, interrupted) == TRUE

should_continue_after_error(cf, interrupted) ==
    cf < MAX_CONSECUTIVE_FAILURES /\ ~interrupted

\* _try_next_page_url and _try_next_topic_page_url: soup is <<>> for None
try_next_page_url(soup, url) ==
    IF soup = <<>> THEN "None" ELSE soup[1].next

\* a traversal that goes on whatever the resolver returns
pagination_never_ends(next_url, url) == FALSE

\* `if not next_url: break` and `if next_url == current_url: break`
pagination_ends(next_url, url) == next_url = "None" \/ next_url = url

\* dict.update
dict_replace(d, m) == m

dict_update(d, m) ==
    [t \in DOMAIN d \cup DOMAIN m |-> IF t \in DOMAIN m THEN m[t] ELSE d[t]]

RECURSIVE convert_posts_data_safe(_)
convert_posts_data_safe(posts_data) ==
    IF posts_data = <<>> THEN <<>>
    ELSE IF Head(posts_data).ok
         THEN <<Head(posts_data).id>> \o convert_posts_data_safe(Tail(posts_data))
         ELSE convert_posts_data_safe(Tail(posts_data))

\* the stubs _retry_failed_pages and _retry_failed_topic_pages
retry_failed_pages(k, failed) == NoRecords(k)

\* what the method returns after the loop
return_value(k, topics, posts, n, failed) ==
    IF k = "parse_forum"
    THEN IF failed # <<>> THEN dict_update(topics, retry_failed_pages(k, failed))
         ELSE topics
    ELSE IF k = "parse_topic"
    THEN IF failed # <<>> THEN posts \o retry_failed_pages(k, failed) ELSE posts
    ELSE n

\* Config.DELAY_BETWEEN_REQUESTS
DELAY_BETWEEN_REQUESTS == 1000    \* 1.0 s, in milliseconds

\* _calculate_adaptive_delay, in milliseconds
calculate_adaptive_delay(cf, page_num) ==
    LET scaled == IF cf > 0
                  THEN (DELAY_BETWEEN_REQUESTS * (2 + cf)) \div 2
                  ELSE DELAY_BETWEEN_REQUESTS
        eased == IF cf = 0 /\ page_num > 5 THEN (scaled * 8) \div 10 ELSE scaled
    IN Max(eased, 500)

\* the argument of sleep_with_jitter after a page: parse_forum computes it,
\* the topic traversals pass the configured delay
request_delay(k, cf, page_num) ==
    IF k = "parse_forum" THEN calculate_adaptive_delay(cf, page_num)
    ELSE DELAY_BETWEEN_REQUESTS

NoLast == [ev |-> "none", url |-> "None", next |-> "None", cf0 |-> 0, tf0 |-> 0,
           delay |-> 0]

InitCrawl ==
    /\ consecutive_failures = 0
    /\ total_failures = 0
    /\ is_interrupted = FALSE
    /\ t_pc = "idle"
    /\ kind = "none"
    /\ current_url = "None"
    /\ page_count = 0
    /\ failed_pages = <<>>
    /\ all_topics = EmptyDict
    /\ all_posts = <<>>
    /\ total_posts = 0
    /\ sink = <<>>
    /\ result = [how |-> "none", val |-> <<>>]
    /\ traversals = 0
    /\ fetches = 0
    /\ last = NoLast
    /\ tripped = <<>>
    /\ gathered = <<>>
    /\ sleeps = 0
    /\ visited = {}
    /\ revisit = FALSE

\* the method returns
Finish(topics, posts, n, failed) ==
    /\ t_pc' = "done"
    /\ result' = [how |-> "returned",
                  val |-> return_value(kind, topics, posts, n, failed)]

\* _handle_page_failure
HandlePageFailure ==
    /\ consecutive_failures' = consecutive_failures + 1
    /\ total_failures' = total_failures + 1
    /\ failed_pages' = Append(failed_pages, page_count + 1)
    /\ tripped' = IF consecutive_failures + 1 = MAX_CONSECUTIVE_FAILURES
                  THEN <<fetches + 1>> ELSE tripped

\* parse_forum, parse_topic or parse_topic_streaming is called
BeginTraversal(k, url) ==
    /\ t_pc \in {"idle", "done", "raised"}
    /\ traversals' = traversals + 1
    /\ kind' = k
    /\ IF k = "parse_forum" /\ ~validate_forum_url(url)
       THEN /\ t_pc' = "raised"
            /\ result' = [how |-> "raised", val |-> "InvalidUrlError"]
            /\ UNCHANGED <<current_url, page_count, failed_pages, all_topics,
                           all_posts, total_posts, sink, fetches, last, tripped,
                           gathered, sleeps, visited, revisit>>
       ELSE /\ t_pc' = "loop"
            /\ result' = [how |-> "none", val |-> <<>>]
            /\ current_url' = url
            /\ page_count' = 0
            /\ failed_pages' = <<>>
            /\ all_topics' = EmptyDict
            /\ all_posts' = <<>>
            /\ total_posts' = 0
            /\ sink' = <<>>
            /\ fetches' = 0
            /\ last' = NoLast
            /\ tripped' = <<>>
            /\ gathered' = NoRecords(k)
            /\ sleeps' = 0
            /\ visited' = {}
            /\ revisit' = FALSE
    /\ UNCHANGED <<consecutive_failures, total_failures, is_interrupted,
                   cacheVars, fetchVars, threadVars>>

\* the loop condition is false: the code after the loop runs
EndLoop ==
    /\ t_pc = "loop"
    /\ ~loop_condition(current_url, page_count, is_interrupted)
    /\ Finish(all_topics, all_posts, total_posts, failed_pages)
    /\ UNCHANGED <<consecutive_failures, total_failures, is_interrupted, kind,
                   current_url, page_count, failed_pages, all_topics, all_posts,
                   total_posts, sink, traversals, fetches, last, tripped,
                   gathered, sleeps, visited, revisit, cacheVars, fetchVars,
                   threadVars>>

\* a traversal is called on a parser whose run history is not followed
StartTraversal(k, url) ==
    /\ traversals < MaxTraversals
    /\ BeginTraversal(k, url)
    /\ UNCHANGED runVars

LoopExit == EndLoop /\ UNCHANGED runVars

\* a page that resets the counter whatever it yielded
page_yielded_always(k, recs, page_posts) == TRUE

\* `if page_topics:` of parse_forum, `if page_posts:` of parse_topic and
\* `if page_posts > 0:` of parse_topic_streaming
page_yielded(k, recs, page_posts) ==
    IF k = "parse_forum" THEN recs # EmptyDict ELSE page_posts # <<>>

\* The iterations of the loop.  pc is where the traversal stands when the
\* iteration runs: "loop" when get_page is taken by its contract and the whole
\* iteration is one step, "fetching" when the iteration resumes after a get_page
\* call that ran step by step.

\* one iteration in which get_page returns None
PageFetchFailedAt(pc) ==
    /\ t_pc = pc
    /\ loop_condition(current_url, page_count, is_interrupted)
    /\ page_count' = page_count + 1
    /\ fetches' = fetches + 1
    /\ HandlePageFailure
    /\ current_url' = try_next_page_url(<<>>, current_url)
    /\ last' = [ev |-> "fetch_failed", url |-> current_url, next |-> "None",
                cf0 |-> consecutive_failures, tf0 |-> total_failures,
                delay |-> 0]
    /\ visited' = visited \cup {current_url}
    /\ t_pc' = "loop"
    /\ UNCHANGED <<is_interrupted, kind, all_topics, all_posts,
                   total_posts, sink, result, traversals, gathered, sleeps,
                   revisit, cacheVars, fetchVars, threadVars>>

PageFetchFailed == PageFetchFailedAt("loop") /\ UNCHANGED runVars

\* one iteration in which get_page returns the page pg and nothing raises
PageProcessedAt(pc, pg) ==
    /\ t_pc = pc
    /\ loop_condition(current_url, page_count, is_interrupted)
    /\ ~pg.bad
    /\ page_count' = page_count + 1
    /\ fetches' = fetches + 1
    /\ LET page_posts == IF kind = "parse_forum" THEN <<>>
                         ELSE convert_posts_data_safe(pg.recs)
           some == page_yielded(kind, pg.recs, page_posts)
           topics == IF kind = "parse_forum" /\ some
                     THEN dict_update(all_topics, pg.recs) ELSE all_topics
           posts == IF kind = "parse_topic" THEN all_posts \o page_posts
                    ELSE all_posts
           n == IF kind = "parse_topic_streaming"
                THEN total_posts + Len(page_posts) ELSE total_posts
       IN /\ all_topics' = topics
          /\ all_posts' = posts
          /\ total_posts' = n
          /\ sink' = IF kind = "parse_topic_streaming" THEN sink \o page_posts
                     ELSE sink
          /\ consecutive_failures' = IF some THEN 0 ELSE consecutive_failures
          /\ gathered' = IF kind = "parse_forum"
                         THEN (pg.recs @@ gathered)
                         ELSE gathered \o SelectSeq(
                                  [i \in 1..Len(pg.recs) |->
                                      IF pg.recs[i].ok THEN pg.recs[i].id ELSE "-"],
                                  LAMBDA x : x # "-")
          /\ IF pagination_ends(pg.next, current_url)
             THEN /\ Finish(topics, posts, n, failed_pages)
                  /\ UNCHANGED <<current_url, sleeps>>
             ELSE /\ current_url' = pg.next
                  /\ sleeps' = sleeps + 1
                  /\ t_pc' = "loop"
                  /\ UNCHANGED result
    /\ visited' = visited \cup {current_url}
    /\ revisit' = (revisit \/ pg.next \in visited')
    /\ last' = [ev |-> "ok", url |-> current_url, next |-> pg.next,
                cf0 |-> consecutive_failures, tf0 |-> total_failures,
                delay |-> IF pagination_ends(pg.next, current_url) THEN 0
                          ELSE request_delay(kind, consecutive_failures',
                                             page_count')]
    /\ UNCHANGED <<total_failures, is_interrupted, kind, failed_pages,
                   traversals, tripped, cacheVars, fetchVars, threadVars>>

PageProcessed(pg) == PageProcessedAt("loop", pg) /\ UNCHANGED runVars

\* one iteration in which get_page returns the page pg and the extractor raises
PageRaisedAt(pc, pg) ==
    /\ t_pc = pc
    /\ loop_condition(current_url, page_count, is_interrupted)
    /\ pg.bad
    /\ page_count' = page_count + 1
    /\ fetches' = fetches + 1
    /\ HandlePageFailure
    /\ IF ~should_continue_after_error(consecutive_failures', is_interrupted)
       THEN /\ Finish(all_topics, all_posts, total_posts, failed_pages')
            /\ UNCHANGED current_url
       ELSE /\ current_url' = try_next_page_url(<<pg>>, current_url)
            /\ t_pc' = "loop"
            /\ UNCHANGED result
    /\ last' = [ev |-> "raised", url |-> current_url, next |-> pg.next,
                cf0 |-> consecutive_failures, tf0 |-> total_failures,
                delay |-> 0]
    /\ visited' = visited \cup {current_url}
    /\ revisit' = (revisit \/ pg.next \in visited')
    /\ UNCHANGED <<is_interrupted, kind, all_topics, all_posts, total_posts,
                   sink, traversals, gathered, sleeps, cacheVars, fetchVars,
                   threadVars>>

PageRaised(pg) == PageRaisedAt("loop", pg) /\ UNCHANGED runVars

\* Ctrl-C while a traversal runs: KeyboardInterrupt is not an Exception, it leaves
\* the traversal, and parse_entire_forum sets is_interrupted
KeyboardInterrupt ==
    /\ t_pc = "loop"
    /\ loop_condition(current_url, page_count, is_interrupted)
    /\ t_pc' = "raised"
    /\ result' = [how |-> "raised", val |-> "KeyboardInterrupt"]
    /\ is_interrupted' = TRUE
    /\ UNCHANGED <<consecutive_failures, total_failures, kind, current_url,
                   page_count, failed_pages, all_topics, all_posts, total_posts,
                   sink, traversals, fetches, last, tripped, gathered, sleeps,
                   visited, revisit, cacheVars, fetchVars, threadVars, runVars>>

Next ==
    \/ \E k \in KINDS, url \in ENTRY_URLS : StartTraversal(k, url)
    \/ LoopExit
    \/ PageFetchFailed
    \/ \E pg \in PAGES(kind) : PageProcessed(pg)
    \/ \E pg \in PAGES(kind) : PageRaised(pg)
    \/ KeyboardInterrupt

-----------------------------------------------------------------------------
(* Threads sharing one MemoryCache.  get, put and clear run their whole body   *)
(* inside `with self._lock`; the body of put is taken statement by statement   *)
(* (_cleanup_expired, each popitem of the eviction loop, the assignment), so   *)
(* the map passes through the intermediate states another thread could see if  *)
(* it were let in.  The clock does not advance inside a critical section.      *)

THREADS == {1, 2}
\* success, from_cache and reg belong to a thread inside get_page: the arguments
\* of add_request and the counter value it has read and not yet written back
IdleThread == [pc |-> "idle", op |-> "none", k |-> "none", v |-> "none",
               ret |-> <<>>, c0 |-> <<>>,
               success |-> FALSE, from_cache |-> FALSE, reg |-> 0]

\* no traversal has run yet
InitRuns ==
    /\ served = <<>>
    /\ first_result = <<>>
    /\ write_failures = 0
    /\ o_pc = "idle"
    /\ topic_list = <<>>
    /\ topic_urls = EmptyDict
    /\ topic_i = 0
    /\ forum_total_posts = 0
    /\ processed_topics = 0
    /\ failed_topics = <<>>
    /\ out_file = <<>>
    /\ parse_result = <<>>
    /\ exit_code = <<>>
    /\ stopped_by = "none"
    /\ expected_file = <<>>
    /\ no_cache = FALSE

\* the handlers as their constructors leave them (src/parsers.py:19-43,
\* 336-351); no call yet
NoCall == [fn |-> "none"]

InitHandlers ==
    /\ url_cache = <<>>
    /\ parse_cache = <<>>
    /\ p_call = NoCall

InitThreads ==
    /\ lock = 0
    /\ th = [t \in THREADS |-> IdleThread]
    /\ ops = 0

\* a lock that lets every thread in
lock_ignored(l) == TRUE

\* threading.Lock: `with self._lock` goes on when the lock is free
lock_free(l) == l = 0

\* the first statement of each body
first_pc(op) ==
    IF op = "get" THEN "lookup" ELSE IF op = "put" THEN "cleanup" ELSE "clearing"

\* thread t calls get(k), put(k, v) or clear()
ThreadCall(t, op, k, v) ==
    /\ th[t].pc = "idle"
    /\ ops < MaxOps
    /\ ops' = ops + 1
    /\ th' = [th EXCEPT ![t] = [IdleThread EXCEPT !.pc = "wait", !.op = op,
                                                  !.k = k, !.v = v]]
    /\ UNCHANGED <<lock, cacheVars, fetchVars, crawlVars, runVars>>

\* with self._lock: (entry)
Acquire(t) ==
    /\ th[t].pc = "wait"
    /\ lock_free(lock)
    /\ lock' = t
    /\ th' = [th EXCEPT ![t].pc = first_pc(th[t].op), ![t].c0 = cache]
    /\ UNCHANGED <<ops, cacheVars, fetchVars, crawlVars, runVars>>

\* the body of get
ThreadGet(t) ==
    /\ th[t].pc = "lookup"
    /\ cache' = get_data(cache, th[t].k, now)
    /\ th' = [th EXCEPT ![t].pc = "release",
                        ![t].ret = get_ret(cache, th[t].k, now)]
    /\ UNCHANGED <<lock, ops, now, put_rec, use_order, c_call, fetchVars, crawlVars, runVars>>

\* put: self._cleanup_expired()
ThreadCleanup(t) ==
    /\ th[t].pc = "cleanup"
    /\ cache' = cleanup_expired(cache, now)
    /\ th' = [th EXCEPT ![t].pc = "evict"]
    /\ UNCHANGED <<lock, ops, now, put_rec, use_order, c_call, fetchVars, crawlVars, runVars>>

\* put: one test of `while len(self._data) >= self.max_size`, and one popitem
ThreadEvict(t) ==
    /\ th[t].pc = "evict"
    /\ IF Len(cache) >= max_size /\ Len(cache) > 0
       THEN /\ cache' = Tail(cache)
            /\ UNCHANGED th
       ELSE /\ th' = [th EXCEPT ![t].pc = "insert"]
            /\ UNCHANGED cache
    /\ UNCHANGED <<lock, ops, now, put_rec, use_order, c_call, fetchVars, crawlVars, runVars>>

\* put: self._data[key] = entry
ThreadInsert(t) ==
    /\ th[t].pc = "insert"
    /\ cache' = set_item(cache, [key |-> th[t].k, data |-> th[t].v,
                                 timestamp |-> now,
                                 ttl |-> effective_ttl(NoTtl)])
    /\ th' = [th EXCEPT ![t].pc = "release"]
    /\ UNCHANGED <<lock, ops, now, put_rec, use_order, c_call, fetchVars, crawlVars, runVars>>

\* the body of clear
ThreadClear(t) ==
    /\ th[t].pc = "clearing"
    /\ cache' = <<>>
    /\ th' = [th EXCEPT ![t].pc = "release"]
    /\ UNCHANGED <<lock, ops, now, put_rec, use_order, c_call, fetchVars, crawlVars, runVars>>

\* with self._lock: (exit); the call returns
Release(t) ==
    /\ th[t].pc = "release"
    /\ lock' = 0
    /\ th' = [th EXCEPT ![t].pc = "idle"]
    /\ UNCHANGED <<ops, cacheVars, fetchVars, crawlVars, runVars>>

\* time passes between the calls
ThreadTick ==
    /\ \A t \in THREADS : th[t].pc \in {"idle", "wait"}
    /\ now < MaxTime
    /\ now' = now + 1
    /\ UNCHANGED <<cache, put_rec, use_order, c_call, fetchVars, crawlVars, threadVars, runVars>>

NextThreads ==
    \/ \E t \in THREADS, k \in KEYS : ThreadCall(t, "get", k, "none")
    \/ \E t \in THREADS, k \in KEYS : ThreadCall(t, "put", k, "v1")
    \/ \E t \in THREADS : ThreadCall(t, "clear", "none", "none")
    \/ \E t \in THREADS : Acquire(t)
    \/ \E t \in THREADS : ThreadGet(t)
    \/ \E t \in THREADS : ThreadCleanup(t)
    \/ \E t \in THREADS : ThreadEvict(t)
    \/ \E t \in THREADS : ThreadInsert(t)
    \/ \E t \in THREADS : ThreadClear(t)
    \/ \E t \in THREADS : Release(t)
    \/ ThreadTick

-----------------------------------------------------------------------------
(* Threads calling get_page on one OptimizedHttpClient.  The cache calls are   *)
(* atomic (they hold the cache's lock); execute_with_retry is taken by its     *)
(* result, a page or an exception; PerformanceMetrics.add_request takes no     *)
(* lock, so each `counter += 1` is a read of the counter followed by a write.  *)

\* the counter that the statement at pc updates
counter_at(r) ==
    IF r.pc \in {"load_total", "store_total"} THEN "total_requests"
    ELSE IF r.pc \in {"load_outcome", "store_outcome"}
    THEN IF r.success THEN "successful_requests" ELSE "failed_requests"
    ELSE "cached_requests"

\* thread t calls get_page(url): the cache lookup
ClientCall(t, url) ==
    /\ th[t].pc = "idle"
    /\ ops < MaxOps
    /\ ops' = ops + 1
    /\ cache' = get_data(cache, get_cache_key(url), now)
    /\ LET hit == get_ret(cache, get_cache_key(url), now) # <<>> IN
       th' = [th EXCEPT ![t] =
                 [IdleThread EXCEPT !.op = "get_page", !.k = url,
                                    !.pc = IF hit THEN "load_total" ELSE "request",
                                    !.success = hit, !.from_cache = hit]]
    /\ UNCHANGED <<lock, now, put_rec, use_order, c_call, fetchVars, crawlVars, runVars>>

\* execute_with_retry returns a page (stored in the cache) or raises
ClientRequest(t, ok) ==
    /\ th[t].pc = "request"
    /\ IF ok
       THEN cache' = put_data(cache, get_cache_key(th[t].k),
                              [url |-> th[t].k, body |-> "b1"], NoTtl, now)
       ELSE UNCHANGED cache
    /\ th' = [th EXCEPT ![t].pc = "load_total", ![t].success = ok]
    /\ UNCHANGED <<lock, ops, now, put_rec, use_order, c_call, fetchVars, crawlVars, runVars>>

\* add_request: the read of `counter += 1`
MetricsLoad(t) ==
    /\ th[t].pc \in {"load_total", "load_outcome", "load_cached"}
    /\ th' = [th EXCEPT ![t].reg = metrics[counter_at(th[t])],
                        ![t].pc = IF th[t].pc = "load_total" THEN "store_total"
                                  ELSE IF th[t].pc = "load_outcome"
                                  THEN "store_outcome" ELSE "store_cached"]
    /\ UNCHANGED <<lock, ops, cacheVars, fetchVars, crawlVars, runVars>>

\* add_request: the write of `counter += 1`; after the last one get_page returns
MetricsStore(t) ==
    /\ th[t].pc \in {"store_total", "store_outcome", "store_cached"}
    /\ metrics' = [metrics EXCEPT ![counter_at(th[t])] = th[t].reg + 1]
    /\ th' = [th EXCEPT ![t].pc =
                 IF th[t].pc = "store_total" THEN "load_outcome"
                 ELSE IF th[t].pc = "store_outcome" /\ th[t].from_cache
                 THEN "load_cached" ELSE "idle"]
    /\ UNCHANGED <<lock, ops, cacheVars, config, f_pc, f_args, attempt,
                   last_exception, delay, f_ret, retry, m_at_call, calls,
                   crawlVars, runVars>>

NextClients ==
    \/ \E t \in THREADS, url \in URLS : ClientCall(t, url)
    \/ \E t \in THREADS, ok \in BOOLEAN : ClientRequest(t, ok)
    \/ \E t \in THREADS : MetricsLoad(t)
    \/ \E t \in THREADS : MetricsStore(t)

-----------------------------------------------------------------------------
(* RetryManager._calculate_delay as a function of the policy and the attempt   *)

\* the exponential policies a RetryConfig can hold: RetryConfig takes the
\* strategy as a string ("exponential_backoff" is its default) and validates
\* none of its fields
POLICIES ==
    [max_attempts : {RETRY_MAX_ATTEMPTS},
     strategy : {"exponential_backoff"},
     base_delay : {0, 1000, 2000},
     max_delay : {1000, 3000, 30000},
     jitter : BOOLEAN,
     backoff_factor : {Factor(1, 2), Factor(1, 1), Factor(2, 1)}]

\* a RetryManager with the policy `config` computes the delay for attempt n;
\* random.uniform gives j
CalculateDelay(n, j) ==
    /\ f_pc \in {"idle", "computed"}
    /\ attempt' = n
    /\ delay' = calculate_delay(config, n, j)
    /\ f_pc' = "computed"
    /\ UNCHANGED <<config, metrics, f_args, last_exception, f_ret, retry,
                   m_at_call, calls, cacheVars, crawlVars, threadVars, runVars>>

NextDelay == \E n \in 0..MaxAttemptNumber, j \in JITTERS : CalculateDelay(n, j)

-----------------------------------------------------------------------------
(* parse_topic with get_page run step by step: the traversal calls get_page    *)
(* for current_url, the retry sequence runs against the transport, and the     *)
(* iteration resumes with what get_page returned.  The body of a page is what  *)
(* the extractor and the resolver make of it.  The transport outcomes are      *)
(* those that end in an Exception.                                             *)

TRANSPORT == {o \in OUTCOMES : o.t # "KeyboardInterrupt"}

\* soup = self.http_client.get_page(current_url)
TraversalGetPage ==
    /\ t_pc = "loop"
    /\ loop_condition(current_url, page_count, is_interrupted)
    /\ GetPageCall(current_url, TRUE)
    /\ t_pc' = "fetching"
    /\ UNCHANGED <<consecutive_failures, total_failures, is_interrupted, kind,
                   current_url, page_count, failed_pages, all_topics, all_posts,
                   total_posts, sink, result, traversals, fetches, last,
                   tripped, gathered, sleeps, visited, revisit>>

\* get_page returned None: the rest of the iteration
GotNone ==
    /\ f_pc = "idle"
    /\ f_ret.kind = "None"
    /\ PageFetchFailedAt("fetching")
    /\ UNCHANGED runVars

\* get_page returned a page: the rest of the iteration
GotPage ==
    /\ f_pc = "idle"
    /\ f_ret.kind = "page"
    /\ \/ PageProcessedAt("fetching", f_ret.soup[1].body)
       \/ PageRaisedAt("fetching", f_ret.soup[1].body)
    /\ UNCHANGED runVars

NextTopic ==
    \/ StartTraversal("parse_topic", "A")
    \/ TraversalGetPage
    \/ \E o \in TRANSPORT, body \in PAGES("parse_topic"), j \in JITTERS :
          Invoke(o, body, j)
    \/ Sleep
    \/ GotNone
    \/ GotPage
    \/ LoopExit

-----------------------------------------------------------------------------
(* parse_forum run twice on one parser over the same pages: the first run     *)
(* records what get_page gave it call by call, the second run is given the    *)
(* same again.  The caches are emptied before each run, so that nothing of    *)
(* the first run but the parser's own fields reaches the second.              *)

\* the listing pages of the two runs
REPLAY_PAGES == {pg \in PAGES("parse_forum") : pg.recs \in {EmptyDict, "t1" :> "x"}}

\* the pages get_page has returned for url so far in the first run: a page
\* fetched before is in the client's cache and is returned again
cached_pages(url) ==
    {served[i].soup : i \in {j \in 1..Len(served) :
                                served[j].url = url /\ served[j].soup # <<>>}}

\* parser.parse_forum(url), the first time
FirstRun ==
    /\ traversals = 0
    /\ BeginTraversal("parse_forum", "A")
    /\ UNCHANGED runVars

\* parser.parse_forum(url) again, once the first call has returned
SecondRun ==
    /\ traversals = 1
    /\ t_pc = "done"
    /\ BeginTraversal("parse_forum", "A")
    /\ first_result' = <<result>>
    /\ UNCHANGED <<served, write_failures, forumVars, handlerVars, no_cache>>

\* an iteration of the first run whose get_page returns None
FirstFetchFailed ==
    /\ traversals = 1
    /\ cached_pages(current_url) = {}
    /\ PageFetchFailedAt("loop")
    /\ served' = Append(served, [url |-> current_url, soup |-> <<>>])
    /\ UNCHANGED <<first_result, write_failures, forumVars, handlerVars, no_cache>>

\* an iteration of the first run whose get_page returns the page pg
FirstPage(pg) ==
    /\ traversals = 1
    /\ cached_pages(current_url) \subseteq {<<pg>>}
    /\ PageProcessedAt("loop", pg) \/ PageRaisedAt("loop", pg)
    /\ served' = Append(served, [url |-> current_url, soup |-> <<pg>>])
    /\ UNCHANGED <<first_result, write_failures, forumVars, handlerVars, no_cache>>

\* an iteration of the second run: get_page gives what it gave the first run
\* at the same call
ReplayPage ==
    /\ traversals = 2
    /\ page_count < Len(served)
    /\ served[page_count + 1].url = current_url
    /\ LET soup == served[page_count + 1].soup IN
          IF Len(soup) = 0
          THEN PageFetchFailedAt("loop")
          ELSE PageProcessedAt("loop", soup[1]) \/ PageRaisedAt("loop", soup[1])
    /\ UNCHANGED runVars

NextTwice ==
    \/ FirstRun
    \/ FirstFetchFailed
    \/ \E pg \in REPLAY_PAGES : FirstPage(pg)
    \/ SecondRun
    \/ ReplayPage
    \/ LoopExit

-----------------------------------------------------------------------------
(* parse_topic_streaming with a sink whose writes may fail *)

\* the loop over posts_data: the posts at the positions fails are those whose
\* write_post raises; the except clause of the loop body skips a post whose
\* conversion or write raised
stream_posts(posts_data, fails) ==
    [i \in 1..Len(posts_data) |->
        PostData(posts_data[i].id, posts_data[i].ok /\ i \notin fails)]

\* write_post is reached by the posts that were converted
written(posts_data) == {i \in 1..Len(posts_data) : posts_data[i].ok}

\* parse_topic_streaming is called
StreamStart ==
    /\ traversals < MaxTraversals
    /\ BeginTraversal("parse_topic_streaming", "A")
    /\ write_failures' = 0
    /\ UNCHANGED <<served, first_result, forumVars, handlerVars, no_cache>>

\* an iteration in which the page pg is extracted and its posts are written,
\* write_post raising for the posts at fails
StreamPage(pg, fails) ==
    /\ kind = "parse_topic_streaming"
    /\ fails \subseteq written(pg.recs)
    /\ PageProcessedAt("loop", [pg EXCEPT !.recs = stream_posts(pg.recs, fails)])
    /\ write_failures' = write_failures + Cardinality(fails)
    /\ UNCHANGED <<served, first_result, forumVars, handlerVars, no_cache>>

NextStream ==
    \/ StreamStart
    \/ PageFetchFailed
    \/ \E pg \in PAGES("parse_topic_streaming") :
          \E fails \in SUBSET (1..Len(pg.recs)) : StreamPage(pg, fails)
    \/ \E pg \in PAGES("parse_topic_streaming") : PageRaised(pg)
    \/ LoopExit

-----------------------------------------------------------------------------
(* main and parse_entire_forum: the listing traversal, then for each topic its *)
(* header and its streaming traversal, page by page.  The calls of get_page    *)
(* for the forum title and for the page count of a topic are taken by their    *)
(* contract and change nothing that is followed here.                          *)

\* the listing pages and the topic pages of the run
FORUM_PAGES ==
    {pg \in PAGES("parse_forum") :
        pg.next \in {"B", "None"}
        /\ pg.recs \in {EmptyDict, ("t1" :> "y") @@ ("t2" :> "x")}}
CRAWL_PAGES ==
    {pg \in PAGES("parse_topic_streaming") :
        pg.next \in {"B", "None"} /\ pg.recs \in {<<>>, <<PostData("p1", TRUE)>>}}

\* topics.items(): the titles in the order of the dict
TITLES == <<"t1", "t2">>
dict_items(d) == SelectSeq(TITLES, LAMBDA t : t \in DOMAIN d)

\* what is appended to the forum file
Header(title) == [item |-> "header", v |-> title]
Record(id) == [item |-> "post", v |-> id]
Records(ids) == [i \in 1..Len(ids) |-> Record(ids[i])]

\* _create_error_result
create_error_result(error_message) ==
    [success |-> FALSE, total_topics |-> 0, total_posts |-> 0, filepath |-> "",
     error_message |-> error_message]

\* the ParseResult built at the end of parse_entire_forum
success_result(n_topics, n_posts) ==
    [success |-> TRUE, total_topics |-> n_topics, total_posts |-> n_posts,
     filepath |-> "file", error_message |-> ""]

\* main: the URL check, then parse_entire_forum up to its call of parse_forum
MainCall(url) ==
    /\ o_pc = "idle"
    /\ IF ~validate_forum_url(url)
       THEN /\ exit_code' = <<1>>
            /\ o_pc' = "exited"
            /\ stopped_by' = "error"
            /\ UNCHANGED <<crawlVars, cacheVars, fetchVars, threadVars>>
       ELSE /\ BeginTraversal("parse_forum", url)
            /\ o_pc' = "listing"
            /\ UNCHANGED <<exit_code, stopped_by>>
    /\ UNCHANGED <<handlerVars, no_cache, served, first_result, write_failures, topic_list, topic_urls,
                   topic_i, forum_total_posts, processed_topics, failed_topics,
                   out_file, parse_result, expected_file>>

\* the iterations of parse_forum inside the run
ListingFetchFailed == o_pc = "listing" /\ PageFetchFailed
ListingPage(pg) == o_pc = "listing" /\ (PageProcessed(pg) \/ PageRaised(pg))

\* a loop of the run's traversal ends on its condition
TraversalLoopExit == o_pc \in {"listing", "streaming"} /\ LoopExit

\* parse_forum returned: no topics is an error result; else the forum title,
\* the forum file (create_forum_file returns None when it fails) and the
\* start of the topic loop
ListingReturned(file_ok) ==
    /\ o_pc = "listing"
    /\ t_pc = "done"
    /\ IF result.val = EmptyDict
       THEN /\ parse_result' = <<create_error_result("no topics")>>
            /\ stopped_by' = "error"
            /\ o_pc' = "returned"
            /\ UNCHANGED <<topic_list, topic_urls, topic_i, out_file>>
       ELSE IF ~file_ok
       THEN /\ parse_result' = <<create_error_result("file")>>
            /\ stopped_by' = "error"
            /\ o_pc' = "returned"
            /\ UNCHANGED <<topic_list, topic_urls, topic_i, out_file>>
       ELSE /\ topic_urls' = result.val
            /\ topic_list' = dict_items(result.val)
            /\ topic_i' = 1
            /\ out_file' = <<>>
            /\ o_pc' = "topics"
            /\ UNCHANGED <<parse_result, stopped_by>>
    /\ UNCHANGED <<handlerVars, no_cache, served, first_result, write_failures, forum_total_posts,
                   processed_topics, failed_topics, exit_code, expected_file,
                   cacheVars, fetchVars, crawlVars, threadVars>>

\* the top of the topic loop with a topic left: the interrupt check, then
\* write_topic_header succeeds and parse_topic_streaming is called
TopicStart ==
    /\ o_pc = "topics"
    /\ topic_i <= Len(topic_list)
    /\ IF is_interrupted
       THEN /\ o_pc' = "finish"
            /\ stopped_by' = "interrupt"
            /\ UNCHANGED <<out_file, expected_file, crawlVars, cacheVars,
                           fetchVars, threadVars>>
       ELSE /\ out_file' = Append(out_file, Header(topic_list[topic_i]))
            /\ expected_file' = Append(expected_file, Header(topic_list[topic_i]))
            /\ BeginTraversal("parse_topic_streaming",
                              topic_urls[topic_list[topic_i]])
            /\ o_pc' = "streaming"
            /\ UNCHANGED stopped_by
    /\ UNCHANGED <<handlerVars, no_cache, served, first_result, write_failures, topic_list, topic_urls,
                   topic_i, forum_total_posts, processed_topics, failed_topics,
                   parse_result, exit_code>>

\* write_topic_header raises: the except clause of the topic loop
TopicHeaderFailed ==
    /\ o_pc = "topics"
    /\ topic_i <= Len(topic_list)
    /\ ~is_interrupted
    /\ failed_topics' = Append(failed_topics, topic_list[topic_i])
    /\ IF ~should_continue_after_error(consecutive_failures, is_interrupted)
       THEN /\ o_pc' = "finish"
            /\ stopped_by' = "threshold"
            /\ UNCHANGED topic_i
       ELSE /\ topic_i' = topic_i + 1
            /\ UNCHANGED <<o_pc, stopped_by>>
    /\ UNCHANGED <<handlerVars, no_cache, served, first_result, write_failures, topic_list, topic_urls,
                   forum_total_posts, processed_topics, out_file, parse_result,
                   exit_code, expected_file, cacheVars, fetchVars, crawlVars,
                   threadVars>>

\* the iterations of parse_topic_streaming inside the run
CrawlFetchFailed == o_pc = "streaming" /\ PageFetchFailed
CrawlPageRaised(pg) == o_pc = "streaming" /\ PageRaised(pg)

\* an iteration that extracts the page pg and writes its posts, write_post
\* raising for the posts at fails
CrawlPage(pg, fails) ==
    /\ o_pc = "streaming"
    /\ fails \subseteq written(pg.recs)
    /\ PageProcessedAt("loop", [pg EXCEPT !.recs = stream_posts(pg.recs, fails)])
    /\ out_file' = out_file \o Records(SubSeq(sink', Len(sink) + 1, Len(sink')))
    /\ expected_file' =
          expected_file \o
          [i \in 1..Cardinality(written(pg.recs) \ fails) |->
              Record(pg.recs[CHOOSE j \in written(pg.recs) \ fails :
                        Cardinality({m \in written(pg.recs) \ fails : m < j})
                            = i - 1].id)]
    /\ write_failures' = write_failures + Cardinality(fails)
    /\ UNCHANGED <<handlerVars, no_cache, served, first_result, o_pc, topic_list, topic_urls, topic_i,
                   forum_total_posts, processed_topics, failed_topics,
                   parse_result, exit_code, stopped_by>>

\* parse_topic_streaming returned posts_count: the rest of the loop body
TopicReturned ==
    /\ o_pc = "streaming"
    /\ t_pc = "done"
    /\ IF result.val > 0
       THEN /\ processed_topics' = processed_topics + 1
            /\ forum_total_posts' = forum_total_posts + result.val
            /\ consecutive_failures' = 0
            /\ UNCHANGED failed_topics
       ELSE /\ failed_topics' = Append(failed_topics, topic_list[topic_i])
            /\ UNCHANGED <<processed_topics, forum_total_posts,
                           consecutive_failures>>
    /\ topic_i' = topic_i + 1
    /\ o_pc' = "topics"
    /\ UNCHANGED <<handlerVars, no_cache, served, first_result, write_failures, topic_list, topic_urls,
                   out_file, parse_result, exit_code, stopped_by, expected_file,
                   total_failures, is_interrupted, t_pc, kind, current_url,
                   page_count, failed_pages, all_topics, all_posts, total_posts,
                   sink, result, traversals, fetches, last, tripped, gathered,
                   sleeps, visited, revisit, cacheVars, fetchVars, threadVars>>

\* the topic loop has no topic left
TopicsExhausted ==
    /\ o_pc = "topics"
    /\ topic_i > Len(topic_list)
    /\ o_pc' = "finish"
    /\ stopped_by' = "exhausted"
    /\ UNCHANGED <<handlerVars, no_cache, served, first_result, write_failures, topic_list, topic_urls,
                   topic_i, forum_total_posts, processed_topics, failed_topics,
                   out_file, parse_result, exit_code, expected_file, cacheVars,
                   fetchVars, crawlVars, threadVars>>

\* after the loop: _retry_failed_topics recovers nothing, the ParseResult is
\* built and returned
CrawlReturn ==
    /\ o_pc = "finish"
    /\ parse_result' = <<success_result(processed_topics, forum_total_posts)>>
    /\ o_pc' = "returned"
    /\ UNCHANGED <<handlerVars, no_cache, served, first_result, write_failures, topic_list, topic_urls,
                   topic_i, forum_total_posts, processed_topics, failed_topics,
                   out_file, exit_code, stopped_by, expected_file, cacheVars,
                   fetchVars, crawlVars, threadVars>>

\* Ctrl-C anywhere inside the try block of parse_entire_forum:
\* except KeyboardInterrupt
CrawlInterrupt ==
    /\ o_pc \in {"listing", "topics", "streaming", "finish"}
    /\ is_interrupted' = TRUE
    /\ t_pc' = IF t_pc = "loop" THEN "raised" ELSE t_pc
    /\ result' = IF t_pc = "loop"
                 THEN [how |-> "raised", val |-> "KeyboardInterrupt"]
                 ELSE result
    /\ parse_result' = <<create_error_result("interrupted")>>
    /\ stopped_by' = "interrupt"
    /\ o_pc' = "returned"
    /\ UNCHANGED <<handlerVars, no_cache, served, first_result, write_failures, topic_list, topic_urls,
                   topic_i, forum_total_posts, processed_topics, failed_topics,
                   out_file, exit_code, expected_file, consecutive_failures,
                   total_failures, kind, current_url, page_count, failed_pages,
                   all_topics, all_posts, total_posts, sink, traversals,
                   fetches, last, tripped, gathered, sleeps, visited, revisit,
                   cacheVars, fetchVars, threadVars>>

\* main after parse_entire_forum returned: `if result and result.success`
MainReturn ==
    /\ o_pc = "returned"
    /\ exit_code' = <<IF parse_result[1].success THEN 0 ELSE 1>>
    /\ o_pc' = "exited"
    /\ UNCHANGED <<handlerVars, no_cache, served, first_result, write_failures, topic_list, topic_urls,
                   topic_i, forum_total_posts, processed_topics, failed_topics,
                   out_file, parse_result, stopped_by, expected_file, cacheVars,
                   fetchVars, crawlVars, threadVars>>

\* Ctrl-C in main outside parse_entire_forum's try block (while the metrics
\* are printed): main's own except KeyboardInterrupt
MainInterrupt ==
    /\ o_pc = "returned"
    /\ parse_result[1].success
    /\ exit_code' = <<130>>
    /\ stopped_by' = "interrupt"
    /\ o_pc' = "exited"
    /\ UNCHANGED <<handlerVars, no_cache, served, first_result, write_failures, topic_list, topic_urls,
                   topic_i, forum_total_posts, processed_topics, failed_topics,
                   out_file, parse_result, expected_file, cacheVars, fetchVars,
                   crawlVars, threadVars>>

NextForum ==
    \/ \E url \in ENTRY_URLS : MainCall(url)
    \/ ListingFetchFailed
    \/ \E pg \in FORUM_PAGES : ListingPage(pg)
    \/ TraversalLoopExit
    \/ \E file_ok \in BOOLEAN : ListingReturned(file_ok)
    \/ TopicStart
    \/ TopicHeaderFailed
    \/ CrawlFetchFailed
    \/ \E pg \in CRAWL_PAGES : CrawlPageRaised(pg)
    \/ \E pg \in CRAWL_PAGES : \E fails \in SUBSET (1..Len(pg.recs)) :
          CrawlPage(pg, fails)
    \/ TopicReturned
    \/ TopicsExhausted
    \/ CrawlReturn
    \/ CrawlInterrupt
    \/ MainReturn
    \/ MainInterrupt

-----------------------------------------------------------------------------
(* main with its options parsed (src/vinskiy_parser.py:832-864): the run of a  *)
(* process seen from its OptimizedHttpClient.  Every get_page call of the run  *)
(* (src/vinskiy_parser.py:81, 167, 253, 357, 720) leaves use_cache at its      *)
(* default, True.                                                              *)

\* main up to parse_entire_forum: with --no-cache it calls
\* http_client.clear_cache(), which empties the cache of the client
MainArgs(flag) ==
    /\ o_pc = "idle"
    /\ o_pc' = "main"
    /\ no_cache' = flag
    /\ cache' = IF flag THEN <<>> ELSE cache
    /\ UNCHANGED <<now, put_rec, use_order, c_call, fetchVars, crawlVars,
                   threadVars, handlerVars, served, first_result, write_failures,
                   topic_list, topic_urls, topic_i, forum_total_posts,
                   processed_topics, failed_topics, out_file, parse_result,
                   exit_code, stopped_by, expected_file>>

\* the run calls self.http_client.get_page(url)
RunGetPage(url) ==
    /\ o_pc = "main"
    /\ GetPageCall(url, TRUE)
    /\ UNCHANGED crawlVars

NextNoCache ==
    \/ \E flag \in BOOLEAN : MainArgs(flag)
    \/ \E url \in URLS : RunGetPage(url)
    \/ \E o \in OUTCOMES, body \in BODIES, j \in JITTERS : Invoke(o, body, j)
    \/ Sleep
    \/ FetchTick

-----------------------------------------------------------------------------
(* OptimizedHtmlParser.extract_topic_links (src/parsers.py:45-96) with the     *)
(* parser's own MemoryCache.  A listing page is taken by the two things the    *)
(* method reads: the first 1000 characters of str(soup) (head), of which the   *)
(* cache key is the md5, and the topic links of the whole page (topics).  Two  *)
(* pages with one head and different topics differ after their first 1000      *)
(* characters.  The clock ticks every 30 s.                                    *)

HEADS == {"h1", "h2"}
LISTINGS == [head : HEADS, topics : TOPIC_DICTS]

\* self.cache.put(cache_key, topics, ttl=30.0), in ticks
TOPICS_TTL == 1

\* f"topics_{hashlib.md5(page_html.encode()).hexdigest()}": one key per head
topics_cache_key(soup) == soup.head

\* soup.find_all('a', class_='topictitle') and _extract_single_topic_link
\* for each link
find_topic_links(soup) == soup.topics

\* extract_topic_links(soup): `if cached_result` is false for None and for
\* the empty dict
ExtractTopicLinks(soup) ==
    LET key == topics_cache_key(soup)
        cached_result == get_ret(parse_cache, key, now)
        looked == get_data(parse_cache, key, now)
        hit == cached_result # <<>> /\ cached_result[1] # EmptyDict
        ret == IF hit THEN cached_result[1] ELSE find_topic_links(soup)
    IN /\ parse_cache' = IF hit THEN looked
                         ELSE put_data(looked, key, ret, SomeTtl(TOPICS_TTL), now)
       /\ p_call' = [fn |-> "extract_topic_links", soup |-> soup, ret |-> ret]
       /\ UNCHANGED <<cacheVars, fetchVars, crawlVars, threadVars, served,
                      first_result, write_failures, forumVars, url_cache,
                      no_cache>>

NextExtract ==
    \/ \E soup \in LISTINGS : ExtractTopicLinks(soup)
    \/ Tick

-----------------------------------------------------------------------------
(* OptimizedPaginationHandler (src/parsers.py:333-586).  A page is taken by    *)
(* what the resolvers read of it: whether it has a div of class pagination,    *)
(* the "Страница X из Y" indicator in the text of that div (info, <<>> when    *)
(* the pattern does not match), and the links with an href of the search area  *)
(* (the div, or the whole page when there is none), in document order.  A      *)
(* link is its visible text and its href; an href or a URL is its endpoint     *)
(* and its start parameter (<<>> when it has none).  The clock ticks every     *)
(* 60 s.                                                                       *)

\* Config.TOPICS_PER_PAGE, Config.POSTS_PER_PAGE
TOPICS_PER_PAGE == 131
POSTS_PER_PAGE == 15

\* the limit arguments of find_all
NEXT_LINK_LIMIT == 20          \* _find_next_link_optimized
TOPIC_NEXT_LINK_LIMIT == 15    \* get_next_topic_page_url
NUMBER_LINK_LIMIT == 15        \* _find_next_page_by_number_optimized
TOPIC_NUMBER_LINK_LIMIT == 10  \* _find_next_topic_page_by_number_optimized
MAX_PAGE_LIMIT == 10           \* _get_page_info_optimized
TOPIC_MAX_PAGE_LIMIT == 8      \* _get_topic_page_info_optimized
TOTAL_PAGES_LIMIT == 10        \* get_total_topic_pages

\* self.url_cache.put(cache_key, next_url, ttl=60.0), in ticks
URL_TTL == 1

Url(endpoint, start) == [endpoint |-> endpoint, start |-> start]
Link(text, href) == [text |-> text, href |-> href]

\* str.isdigit and int on the texts of the model
DIGITS == <<"1", "2", "3">>
isdigit(text) == \E n \in 1..Len(DIGITS) : DIGITS[n] = text
int(text) == CHOOSE n \in 1..Len(DIGITS) : DIGITS[n] = text

\* text.startswith('След') or '»' in text or text == 'Next' or
\* text.lower() in ['следующая', 'далее', 'next']
\* (the Cyrillic texts are written in Latin letters: "Sled." is 'След.')
is_next_text(text) == text \in {"Sled.", "Next", "next", "Dalee"}

\* the links of a page of the kind with endpoint e and page size per: the
\* number n leads to the page of offset (n - 1) * per
PageLinks(e, per) ==
    {Link("2", Url(e, <<per>>)), Link("3", Url(e, <<2 * per>>)),
     Link("Sled.", Url(e, <<per>>)), Link("2", Url("other", <<per>>))}
LinkLists(e, per) ==
    {<<>>} \cup {<<l>> : l \in PageLinks(e, per)}
    \cup {<<Link("2", Url(e, <<per>>)), Link("3", Url(e, <<2 * per>>))>>}
INFOS == {<<>>, <<1, 2>>, <<2, 2>>, <<1, 0>>}
Soups(e, per) ==
    [pagination : {TRUE}, info : INFOS, links : LinkLists(e, per)]
    \cup [pagination : {FALSE}, info : {<<>>}, links : LinkLists(e, per)]
CurrentUrls(e, per) == {Url(e, <<>>), Url(e, <<per>>)}

\* find_all('a', href=True, limit=n)
Limit(links, n) == SubSeq(links, 1, Min(n, Len(links)))

\* return urljoin(self.base_url, href) at the first link of hits, the links
\* that pass the test of a loop; None (<<>>) when there is none
FirstHref(hits) == IF hits = <<>> THEN <<>> ELSE <<hits[1].href>>

\* _find_next_link_optimized, and the first loop of get_next_topic_page_url
find_next_link(soup, e, limit) ==
    FirstHref(SelectSeq(Limit(soup.links, limit),
                        LAMBDA l : is_next_text(l.text) /\ l.href.endpoint = e))

\* max_page = max(max_page, int(text)) over the digit links, from 1
RECURSIVE max_page(_)
max_page(links) ==
    IF links = <<>> THEN 1
    ELSE LET m == max_page(Tail(links))
         IN IF isdigit(Head(links).text) THEN Max(m, int(Head(links).text)) ELSE m

\* _get_page_info_optimized, _get_topic_page_info_optimized
get_page_info(soup, cur_url, per, limit) ==
    IF soup.pagination /\ soup.info # <<>> THEN soup.info
    ELSE IF cur_url.start # <<>>
    THEN LET start == cur_url.start[1]
         IN << IF start > 0 THEN (start \div per) + 1 ELSE 1,
               IF soup.pagination THEN max_page(Limit(soup.links, limit)) ELSE 1 >>
    ELSE <<1, 1>>

\* _find_next_page_by_number_optimized,
\* _find_next_topic_page_by_number_optimized
find_next_page_by_number(soup, cur_url, e, per, limit, max_limit) ==
    IF ~soup.pagination THEN <<>>
    ELSE LET page_info == get_page_info(soup, cur_url, per, max_limit)
             current_page == page_info[1]
             total_pages == page_info[2]
         IN IF current_page >= total_pages THEN <<>>
            ELSE FirstHref(SelectSeq(Limit(soup.links, limit),
                                     LAMBDA l : /\ isdigit(l.text)
                                                /\ int(l.text) = current_page + 1
                                                /\ l.href.endpoint = e))

\* get_next_topic_page_url: <<url>>, or <<>> for None
next_topic_page_url(soup, cur_url) ==
    LET next_url == find_next_link(soup, "viewtopic.php", TOPIC_NEXT_LINK_LIMIT)
    IN IF next_url # <<>> THEN next_url
       ELSE find_next_page_by_number(soup, cur_url, "viewtopic.php",
                                     POSTS_PER_PAGE, TOPIC_NUMBER_LINK_LIMIT,
                                     TOPIC_MAX_PAGE_LIMIT)

\* get_next_page_url past its cache lookup
next_page_url(soup, cur_url) ==
    LET next_url == find_next_link(soup, "viewforum.php", NEXT_LINK_LIMIT)
    IN IF next_url # <<>> THEN next_url
       ELSE find_next_page_by_number(soup, cur_url, "viewforum.php",
                                     TOPICS_PER_PAGE, NUMBER_LINK_LIMIT,
                                     MAX_PAGE_LIMIT)

\* get_total_topic_pages
total_topic_pages(soup) ==
    IF ~soup.pagination THEN 1
    ELSE IF soup.info # <<>> THEN soup.info[2]
    ELSE max_page(Limit(soup.links, TOTAL_PAGES_LIMIT))

\* f"next_page_{hash(cur_url)}": one key per URL
url_cache_key(cur_url) == cur_url

\* get_next_page_url(soup, cur_url)
GetNextPageUrl(soup, cur_url) ==
    LET key == url_cache_key(cur_url)
        cached_url == get_ret(url_cache, key, now)
        looked == get_data(url_cache, key, now)
        next_url == next_page_url(soup, cur_url)
    IN /\ IF cached_url # <<>>
          THEN /\ url_cache' = looked
               /\ p_call' = [fn |-> "get_next_page_url", soup |-> soup,
                             url |-> cur_url, ret |-> cached_url]
          ELSE /\ url_cache' = IF next_url # <<>>
                               THEN put_data(looked, key, next_url[1],
                                             SomeTtl(URL_TTL), now)
                               ELSE looked
               /\ p_call' = [fn |-> "get_next_page_url", soup |-> soup,
                             url |-> cur_url, ret |-> next_url]
       /\ UNCHANGED <<cacheVars, fetchVars, crawlVars, threadVars, served,
                      first_result, write_failures, forumVars, parse_cache,
                      no_cache>>

\* get_next_topic_page_url(soup, cur_url)
GetNextTopicPageUrl(soup, cur_url) ==
    /\ p_call' = [fn |-> "get_next_topic_page_url", soup |-> soup,
                  url |-> cur_url, ret |-> next_topic_page_url(soup, cur_url)]
    /\ UNCHANGED <<cacheVars, fetchVars, crawlVars, threadVars, served,
                   first_result, write_failures, forumVars, url_cache,
                   parse_cache, no_cache>>

\* get_total_topic_pages(soup)
GetTotalTopicPages(soup) ==
    /\ p_call' = [fn |-> "get_total_topic_pages", soup |-> soup,
                  ret |-> total_topic_pages(soup)]
    /\ UNCHANGED <<cacheVars, fetchVars, crawlVars, threadVars, served,
                   first_result, write_failures, forumVars, url_cache,
                   parse_cache, no_cache>>

NextPagination ==
    \/ \E soup \in Soups("viewforum.php", TOPICS_PER_PAGE),
          cur_url \in CurrentUrls("viewforum.php", TOPICS_PER_PAGE) :
          GetNextPageUrl(soup, cur_url)
    \/ \E soup \in Soups("viewtopic.php", POSTS_PER_PAGE),
          cur_url \in CurrentUrls("viewtopic.php", POSTS_PER_PAGE) :
          GetNextTopicPageUrl(soup, cur_url)
    \/ \E soup \in Soups("viewtopic.php", POSTS_PER_PAGE) :
          GetTotalTopicPages(soup)
    \/ Tick

-----------------------------------------------------------------------------
(* Specifications *)

\* a MemoryCache of its own; the client is built from the configuration and idle
InitSpecCache ==
    InitCache /\ InitFetch(RETRY_MAX_ATTEMPTS) /\ InitCrawl /\ InitThreads /\ InitRuns /\ InitHandlers

SpecCache == InitSpecCache /\ [][NextCache]_vars

\* a client with an empty cache and a RetryConfig of 1..MaxAttempts attempts
InitSpecFetch ==
    \E n \in 1..MaxAttempts :
        InitCache /\ InitFetch(n) /\ InitCrawl /\ InitThreads /\ InitRuns /\ InitHandlers

SpecFetch == InitSpecFetch /\ [][NextFetch]_vars

\* a parser built from the configuration, before any traversal
InitSpec ==
    InitCache /\ InitFetch(RETRY_MAX_ATTEMPTS) /\ InitCrawl /\ InitThreads /\ InitRuns /\ InitHandlers

Spec == InitSpec /\ [][Next]_vars

\* threads on one MemoryCache, empty at first
InitSpecThreads ==
    InitCache /\ InitFetch(RETRY_MAX_ATTEMPTS) /\ InitCrawl /\ InitThreads /\ InitRuns /\ InitHandlers

SpecThreads == InitSpecThreads /\ [][NextThreads]_vars

\* threads on one OptimizedHttpClient, just built
InitSpecClients ==
    InitCache /\ InitFetch(RETRY_MAX_ATTEMPTS) /\ InitCrawl /\ InitThreads /\ InitRuns /\ InitHandlers

SpecClients == InitSpecClients /\ [][NextClients]_vars

\* a RetryManager with any exponential policy
InitSpecDelay ==
    /\ config \in POLICIES
    /\ InitCache /\ InitClient /\ InitCrawl /\ InitThreads /\ InitRuns /\ InitHandlers

SpecDelay == InitSpecDelay /\ [][NextDelay]_vars

\* a parser built from the configuration, before any traversal
InitSpecTopic ==
    InitCache /\ InitFetch(RETRY_MAX_ATTEMPTS) /\ InitCrawl /\ InitThreads /\ InitRuns /\ InitHandlers

SpecTopic == InitSpecTopic /\ [][NextTopic]_vars

\* a parser built from the configuration, before its first parse_forum
InitSpecTwice ==
    InitCache /\ InitFetch(RETRY_MAX_ATTEMPTS) /\ InitCrawl /\ InitThreads /\ InitRuns /\ InitHandlers

SpecTwice == InitSpecTwice /\ [][NextTwice]_vars

\* a parser built from the configuration, before any parse_topic_streaming
InitSpecStream ==
    InitCache /\ InitFetch(RETRY_MAX_ATTEMPTS) /\ InitCrawl /\ InitThreads /\ InitRuns /\ InitHandlers

SpecStream == InitSpecStream /\ [][NextStream]_vars

\* a process that has just started main
InitSpecForum ==
    InitCache /\ InitFetch(RETRY_MAX_ATTEMPTS) /\ InitCrawl /\ InitThreads /\ InitRuns /\ InitHandlers

SpecForum == InitSpecForum /\ [][NextForum]_vars

\* a process that has just started main, its client built from the configuration
InitSpecNoCache ==
    InitCache /\ InitFetch(RETRY_MAX_ATTEMPTS) /\ InitCrawl /\ InitThreads /\ InitRuns /\ InitHandlers

SpecNoCache == InitSpecNoCache /\ [][NextNoCache]_vars

\* an OptimizedHtmlParser just built
InitSpecExtract ==
    InitCache /\ InitFetch(RETRY_MAX_ATTEMPTS) /\ InitCrawl /\ InitThreads /\ InitRuns /\ InitHandlers

SpecExtract == InitSpecExtract /\ [][NextExtract]_vars

\* an OptimizedPaginationHandler just built
InitSpecPagination ==
    InitCache /\ InitFetch(RETRY_MAX_ATTEMPTS) /\ InitCrawl /\ InitThreads /\ InitRuns /\ InitHandlers

SpecPagination == InitSpecPagination /\ [][NextPagination]_vars

-----------------------------------------------------------------------------
(* Claims about MemoryCache, checked under SpecCache *)

\* the time-to-live a caller asked for: the ttl argument, the default when omitted
asked_ttl(r) == IF r.ttl.some THEN r.ttl.v ELSE default_ttl

\* C9: after put(k, v, ttl=t) at time p, for every t >= 0 including t = 0, get(k)
\* returns v at every time with now - p <= t while k is still in the map, and
\* returns absent at every time with now - p > t, removing the expired entry.
C9_TtlHonoured ==
    \A k \in CacheKeys(cache) :
        LET r == put_rec[k] IN
        /\ now - r.p <= asked_ttl(r) => get_ret(cache, k, now) = <<r.v>>
        /\ now - r.p > asked_ttl(r) =>
              /\ get_ret(cache, k, now) = <<>>
              /\ k \notin CacheKeys(get_data(cache, k, now))

\* C9, away from the failing input: the same statement for every put whose ttl
\* argument is omitted or positive.
C9_TtlHonouredWhenPositive ==
    \A k \in CacheKeys(cache) :
        LET r == put_rec[k] IN
        (~r.ttl.some \/ r.ttl.v > 0) =>
            /\ now - r.p <= asked_ttl(r) => get_ret(cache, k, now) = <<r.v>>
            /\ now - r.p > asked_ttl(r) =>
                  /\ get_ret(cache, k, now) = <<>>
                  /\ k \notin CacheKeys(get_data(cache, k, now))

\* the map holds max_size entries, none of them expired
FullOfLive == /\ Len(cache) = max_size
              /\ \A i \in 1..Len(cache) : ~is_expired(cache[i], now)

\* C10: a put of a new key into a cache that holds max_size unexpired entries
\* evicts exactly one entry, the least recently used one (a use being an
\* insertion, a re-insertion by put or a successful get), and every other entry
\* is still retrievable.
C10_EvictsLeastRecentlyUsed ==
    [][\A k \in KEYS :
          (k \notin CacheKeys(cache) /\ k \in CacheKeys(cache') /\ FullOfLive) =>
              /\ CacheKeys(cache) \ CacheKeys(cache') = {Head(use_order)}
              /\ \A x \in CacheKeys(cache) \ {Head(use_order)} :
                    get_ret(cache', x, now') # <<>>]_vars

\* C10, away from the failing input: the same statement when no key of the map
\* was re-inserted by put since it entered the map, i.e. when the order of use
\* is the order of the OrderedDict.
C10_EvictsOldestOfDict ==
    [][\A k \in KEYS :
          (k \notin CacheKeys(cache) /\ k \in CacheKeys(cache') /\ FullOfLive) =>
              /\ CacheKeys(cache) \ CacheKeys(cache') = {cache[1].key}
              /\ \A x \in CacheKeys(cache) \ {cache[1].key} :
                    get_ret(cache', x, now') # <<>>]_vars

-----------------------------------------------------------------------------
(* Claims about get_page and execute_with_retry, checked under SpecFetch *)

\* the last get_page call is over
CallOver == f_pc = "idle" /\ calls > 0

\* the transport outcomes by what the specification says of them
OkOutcome(o) == o.t = "response" /\ o.status < 400
RetryableOutcome(o) ==
    \/ o.t \in {"Timeout", "ConnectionError"}
    \/ o.t = "response" /\ o.status \in {429, 500, 502, 503, 504}
FatalOutcome(o) ==
    \/ o.t = "Exception"
    \/ o.t = "response" /\ o.status >= 400
                        /\ o.status \notin {429, 500, 502, 503, 504}

\* the last call ended on a failing transport outcome
CallFailed ==
    /\ CallOver
    /\ retry.outcome # <<>>
    /\ RetryableOutcome(retry.outcome[1]) \/ FatalOutcome(retry.outcome[1])

\* C1: get_page never raises an Exception: every call returns the parsed page or
\* None, and a call that ends on a failing transport outcome (retries exhausted,
\* fatal failure, unexpected exception) returns None after recording exactly
\* one failed request.
C1_GetPageNeverRaises ==
    /\ f_ret.kind = "raised" => ~is_Exception(f_ret.exc[1])
    /\ CallOver /\ retry.out = "returned" => f_ret.kind = "page"
    /\ CallFailed =>
          /\ f_ret.kind = "None"
          /\ metrics.failed_requests = m_at_call.failed_requests + 1
          /\ metrics.total_requests = m_at_call.total_requests + 1
          /\ metrics.successful_requests = m_at_call.successful_requests
          /\ metrics.cached_requests = m_at_call.cached_requests

\* C1 witness: a call that went through two transport failures, the second
\* an unexpected exception, and returned None
C1_Witness ==
    /\ CallFailed
    /\ retry.invocations = 2
    /\ retry.outcome[1].t = "Exception"
    /\ f_ret.kind = "None"
    /\ metrics.failed_requests = 1

\* C2: with max_attempts = N the operation is invoked at most N times; every
\* retryable failure with attempts remaining is followed by one sleep of the
\* delay computed for that attempt and then by the next invocation; N retryable
\* failures end in raising the last of them after exactly N - 1 sleeps; a
\* success at attempt k returns after exactly k invocations.
C2_RetrySequence ==
    /\ retry.invocations <= config.max_attempts
    /\ f_pc = "invoke" =>
          /\ retry.invocations = attempt
          /\ retry.sleeps = retry.invocations
    /\ f_pc = "sleep" =>
          /\ RetryableOutcome(retry.outcome[1])
          /\ retry.invocations < config.max_attempts
          /\ retry.sleeps = retry.invocations - 1
          /\ \E j \in JITTERS :
                delay = calculate_delay(config, retry.invocations - 1, j)
    /\ (retry.out = "raised" /\ RetryableOutcome(retry.outcome[1])) =>
          /\ retry.invocations = config.max_attempts
          /\ retry.sleeps = config.max_attempts - 1
          /\ retry.exc = <<Exc("RetryableError", retry.outcome[1])>>
    /\ retry.out = "returned" =>
          /\ OkOutcome(retry.outcome[1])
          /\ retry.invocations = attempt + 1
          /\ retry.sleeps = retry.invocations - 1
          /\ f_ret.kind = "page" /\ f_ret.soup[1].url = f_args.url

\* C2 witness: three attempts, all failed retryably, two sleeps, the last
\* failure raised
C2_Witness ==
    /\ config.max_attempts = 3
    /\ retry.out = "raised"
    /\ RetryableOutcome(retry.outcome[1])
    /\ retry.invocations = 3
    /\ retry.sleeps = 2

\* C3: a failure outside the retryable set, on any attempt, ends the retry
\* sequence at once: no further invocation, no sleep, and a NonRetryableError
\* is raised.
C3_FatalNotRetried ==
    (retry.outcome # <<>> /\ FatalOutcome(retry.outcome[1])) =>
        /\ f_pc = "idle"
        /\ retry.out = "raised"
        /\ retry.exc # <<>> /\ retry.exc[1].cls = "NonRetryableError"
        /\ retry.sleeps = retry.invocations - 1
        /\ retry.invocations = attempt + 1

\* C3 witness: a retryable failure, one sleep, then HTTP 404 on the second
\* attempt
C3_Witness ==
    /\ retry.outcome = <<[t |-> "response", status |-> 404]>>
    /\ retry.invocations = 2
    /\ retry.sleeps = 1
    /\ retry.out = "raised"


-----------------------------------------------------------------------------
(* Claims about the traversals, checked under Spec *)

\* the traversal is about to fetch current_url
AboutToFetch ==
    t_pc = "loop" /\ loop_condition(current_url, page_count, is_interrupted)

\* C4: on every path, the error-recovery path included, current_url only ever
\* advances to a URL different from the one just processed: when the resolver
\* returns the current URL as the next one the traversal fetches nothing more
\* and that URL is not fetched a second time.
C4_NeverRefetchesCurrentUrl ==
    (fetches > 0 /\ AboutToFetch) =>
        /\ current_url # last.url
        /\ last.next # last.url

\* C5: once a page failure has brought consecutive_failures to
\* MAX_CONSECUTIVE_FAILURES, the traversal makes no further get_page call: it
\* has returned or is about to leave the loop.
C5_BreakerEndsTraversal ==
    tripped # <<>> => fetches = tripped[1] /\ ~AboutToFetch

\* the breaker tripped on a page below the page cap whose next URL was resolved
C5_Witness ==
    /\ tripped # <<>>
    /\ t_pc = "done"
    /\ page_count < MAX_PAGES
    /\ last.ev = "raised"
    /\ last.next \notin {"None", last.url}

\* C6: a traversal makes at most MAX_PAGES get_page calls whatever the resolver
\* returns, and every step of a running traversal either ends it or is one more
\* get_page call, so it terminates.
C6_AtMostMaxPagesFetches ==
    /\ [](fetches <= MAX_PAGES /\ page_count = fetches)
    /\ [][t_pc = "loop" => (t_pc' # "loop" \/ fetches' = fetches + 1)]_vars

\* the page cap ended a traversal whose resolver kept returning another URL,
\* among them URLs fetched before (a cycle of several pages)
C6_Witness ==
    /\ t_pc = "done"
    /\ fetches = MAX_PAGES
    /\ revisit
    /\ Cardinality(visited) > 1
    /\ last.ev = "ok"
    /\ last.next \notin {"None", last.url}

\* C7: parse_forum and parse_topic return every record extracted from the pages
\* processed before the traversal ended, whatever ended it, and a page-level
\* failure never makes the traversal raise.
C7_ReturnsEverythingGathered ==
    /\ (t_pc = "done" /\ kind \in {"parse_forum", "parse_topic"}) =>
           result = [how |-> "returned", val |-> gathered]
    /\ (t_pc = "raised") =>
           result.val \in {"InvalidUrlError", "KeyboardInterrupt"}

\* a traversal that gathered records and then ended on a failed page
C7_Witness ==
    /\ t_pc = "done"
    /\ kind \in {"parse_forum", "parse_topic"}
    /\ gathered # NoRecords(kind)
    /\ last.ev \in {"fetch_failed", "raised"}
    /\ Len(failed_pages) > 0

\* C8: when get_page returns nothing and consecutive_failures is still below the
\* threshold, the page is recorded as failed (appended to failed_pages, both
\* counters incremented) and the traversal does not end: unless the page cap is
\* reached it goes on to another page.
C8_FetchFailureBelowThresholdGoesOn ==
    (t_pc \in {"loop", "done"} /\ last.ev = "fetch_failed"
        /\ consecutive_failures < MAX_CONSECUTIVE_FAILURES) =>
        /\ failed_pages # <<>>
        /\ failed_pages[Len(failed_pages)] = page_count
        /\ consecutive_failures = last.cf0 + 1
        /\ total_failures = last.tf0 + 1
        /\ page_count < MAX_PAGES => AboutToFetch


-----------------------------------------------------------------------------
(* Claims about MemoryCache under concurrent callers, checked under SpecThreads *)

\* what the call of thread record r leaves in the map c when it runs alone
sequential_data(r, c) ==
    IF r.op = "get" THEN get_data(c, r.k, now)
    ELSE IF r.op = "put" THEN put_data(c, r.k, r.v, NoTtl, now)
    ELSE <<>>

\* what the call of thread record r returns on the map c when it runs alone
sequential_ret(r, c) ==
    IF r.op = "get" THEN get_ret(c, r.k, now) ELSE <<>>

InBody(t) == th[t].pc \notin {"idle", "wait"}

\* C11: for every interleaving of get, put and clear by two threads, only the
\* thread that holds the lock is inside a body (so none sees a map another is
\* half-way through updating), each call leaves the map and returns the value
\* that the same call run alone on the map it found would, and the map never
\* holds more than max_size entries.
C11_CacheCallsAtomic ==
    /\ Len(cache) <= max_size
    /\ \A t \in THREADS : InBody(t) => lock = t
    /\ \A t \in THREADS :
          th[t].pc = "release" =>
              /\ cache = sequential_data(th[t], th[t].c0)
              /\ th[t].ret = sequential_ret(th[t], th[t].c0)

\* a put is half-way through its body on a map that held entries (expired
\* ones removed, the insertion still to come) while the other thread waits at
\* the lock with a put of its own
C11_Witness ==
    \E t, u \in THREADS :
        /\ t # u
        /\ th[t].pc = "evict"
        /\ th[t].c0 # <<>>
        /\ th[u].pc = "wait"
        /\ th[u].op = "put"
        /\ th[u].k # th[t].k


-----------------------------------------------------------------------------
(* Claims about the metrics under concurrent callers, checked under SpecClients *)

\* C12: when threads run get_page concurrently on one client no counter update
\* is lost: once the N calls started have all completed, total_requests = N
\* and successful_requests + failed_requests = N.
C12_NoLostMetricsUpdate ==
    (\A t \in THREADS : th[t].pc = "idle") =>
        /\ metrics.total_requests = ops
        /\ metrics.successful_requests + metrics.failed_requests = ops


-----------------------------------------------------------------------------
(* Claims about the retry counter and the configured delays, under SpecFetch *)

\* C13: every re-invocation that the retry engine makes after a retryable
\* failure increments metrics.retry_attempts: when a get_page call is over the
\* counter has grown by the number of invocations after the first.
C13_RetriesCounted ==
    (CallOver /\ retry.invocations >= 1) =>
        metrics.retry_attempts =
            m_at_call.retry_attempts + (retry.invocations - 1)

\* C14: the policy built by Config.get_retry_config backs off exponentially:
\* jitter apart, the delay slept before retry n (n = 0 for the first) is
\* min(base_delay * backoff_factor^n, max_delay).
C14_ConfiguredBackoffExponential ==
    f_pc = "sleep" =>
        calculate_delay([config EXCEPT !.jitter = FALSE], attempt, 0) =
            Min((config.base_delay * Pow(config.backoff_factor.num, attempt))
                    \div Pow(config.backoff_factor.den, attempt),
                config.max_delay)

-----------------------------------------------------------------------------
(* Claims about _calculate_delay on exponential policies, under SpecDelay *)

\* C15: for every attempt number n >= 0 and every exponential policy, with or
\* without jitter, the delay that _calculate_delay(n) returns is at most
\* max_delay.
C15_DelayAtMostMaxDelay ==
    f_pc = "computed" => delay <= config.max_delay

\* the delay of attempt n with jitter disabled
plain_delay(n) == calculate_delay([config EXCEPT !.jitter = FALSE], n, 0)

\* C16 as stated: for a fixed exponential policy with jitter disabled the delay
\* is non-decreasing in the attempt number.
C16_DelayNonDecreasing ==
    (f_pc = "computed" /\ ~config.jitter) =>
        \A m \in 0..attempt : plain_delay(m) <= delay

\* C16, amended: the same for the policies whose base_delay is not negative and
\* whose backoff_factor is at least 1.
C16_DelayNonDecreasingFromFactorOne ==
    (f_pc = "computed" /\ ~config.jitter /\ config.base_delay >= 0
        /\ config.backoff_factor.num >= config.backoff_factor.den) =>
        \A m \in 0..attempt : plain_delay(m) <= delay

\* a delay beyond the first that grew and one that is held by the cap
C16_Witness ==
    /\ f_pc = "computed"
    /\ ~config.jitter
    /\ config.backoff_factor = Factor(2, 1)
    /\ attempt = MaxAttemptNumber
    /\ delay = config.max_delay
    /\ plain_delay(0) < plain_delay(1)
    /\ plain_delay(attempt - 1) = delay


-----------------------------------------------------------------------------
(* Further claims about the traversals, checked under Spec *)

\* parse_forum has returned from a listing that was a chain of pages ending with
\* a page without successor, no page revisited, no page failed
FailureFreeChainDone ==
    /\ t_pc = "done"
    /\ kind = "parse_forum"
    /\ failed_pages = <<>>
    /\ last.ev = "ok"
    /\ last.next = "None"
    /\ ~revisit

-----------------------------------------------------------------------------
(* Claims about a topic traversal over the retrying client, checked under     *)
(* SpecTopic                                                                   *)

\* the iteration resumes with a page whose fetch failed retryably at least once
\* before the transport served it
OvercomeFetch ==
    /\ t_pc = "fetching"
    /\ f_pc = "idle"
    /\ retry.out = "returned"
    /\ retry.invocations > 1

\* C18: a retryable fetch failure overcome within max_attempts is invisible to
\* parse_topic: a retryable failure with attempts remaining does not end the
\* get_page call, the retries leave the traversal's state alone, and the
\* iteration that resumes with the page served at last appends exactly the
\* posts of that page, leaves failed_pages and total_failures as they were and
\* does not raise consecutive_failures; the traversal returns the posts
\* gathered.
C18_OvercomeFailureInvisible ==
    /\ []((t_pc = "fetching" /\ retry.outcome # <<>>
             /\ RetryableOutcome(retry.outcome[1])
             /\ retry.invocations < config.max_attempts) =>
            f_pc \in {"sleep", "invoke"})
    /\ []((t_pc = "done" /\ kind = "parse_topic") =>
            result = [how |-> "returned", val |-> gathered])
    /\ [][(t_pc = "fetching" /\ t_pc' = "fetching") => UNCHANGED crawlVars]_vars
    /\ [][(OvercomeFetch /\ t_pc' # "fetching"
               /\ ~f_ret.soup[1].body.bad) =>
            /\ retry.invocations <= config.max_attempts
            /\ last'.ev = "ok"
            /\ all_posts' =
                   all_posts \o convert_posts_data_safe(f_ret.soup[1].body.recs)
            /\ failed_pages' = failed_pages
            /\ total_failures' = total_failures
            /\ consecutive_failures' <= consecutive_failures]_vars

\* the second page of a topic was served at the third attempt after two
\* retryable failures, and the traversal ended with the posts of both pages and
\* no failed page
C18_Witness ==
    /\ t_pc = "done"
    /\ kind = "parse_topic"
    /\ retry.out = "returned"
    /\ retry.invocations = 3
    /\ retry.sleeps = 2
    /\ RETRY_MAX_ATTEMPTS = 3
    /\ page_count = 2
    /\ last.ev = "ok"
    /\ failed_pages = <<>>
    /\ total_failures = 0
    /\ result.val = <<"p1", "p3", "p1">>

-----------------------------------------------------------------------------
(* Claims about repeated and streaming traversals *)

\* C19: parse_forum is idempotent on one parser: run a second time over the
\* same pages served call by call, with the caches emptied, it returns the
\* topics the first run returned.
C19_ListingIdempotent ==
    (traversals = 2 /\ t_pc = "done" /\ first_result # <<>>) =>
        result = first_result[1]

\* C20: a write_post failure during parse_topic_streaming is not absorbed: once
\* a write has failed the traversal has raised, and does not go on or return
\* with the post dropped.
C20_WriteFailurePropagates ==
    (kind = "parse_topic_streaming" /\ write_failures > 0) => t_pc = "raised"

-----------------------------------------------------------------------------
(* Claims about the start of a traversal, checked under Spec *)

\* C21: every traversal kind validates its entry URL before the first fetch: a
\* URL without scheme, domain and endpoint marker never becomes the URL a
\* traversal is about to fetch and is never fetched.
C21_EntryUrlValidated ==
    /\ current_url # "X"
    /\ "X" \notin visited

\* C22: each traversal starts with consecutive_failures = 0.
C22_TraversalStartsWithZeroFailures ==
    (t_pc = "loop" /\ page_count = 0 /\ fetches = 0) => consecutive_failures = 0

-----------------------------------------------------------------------------
(* Claims about the full-forum crawl, checked under SpecForum *)

\* parse_entire_forum has returned
CrawlOver == o_pc \in {"returned", "exited"} /\ parse_result # <<>>

\* C23: when the crawl stopped at the failure threshold, parse_entire_forum
\* returns the topics and posts gathered so far and the result is not tagged
\* as a success.
C23_ThresholdStopNotSuccess ==
    (CrawlOver /\ stopped_by = "threshold") =>
        /\ parse_result[1].total_topics = processed_topics
        /\ parse_result[1].total_posts = forum_total_posts
        /\ ~parse_result[1].success

\* C24: when an interrupt arrives during the crawl, the result reports the
\* topics and posts processed and written before it, and the output file.
C24_InterruptReturnsPartialResult ==
    (CrawlOver /\ is_interrupted) =>
        /\ parse_result[1].total_topics = processed_topics
        /\ parse_result[1].total_posts = forum_total_posts
        /\ out_file # <<>> => parse_result[1].filepath = "file"

\* C26: the exit code is 130 whenever an interrupt stopped the run, 0 on
\* success and 1 on any other failure.
C26_ExitCodes ==
    exit_code # <<>> =>
        exit_code[1] = IF stopped_by = "interrupt" THEN 130
                       ELSE IF parse_result # <<>> /\ parse_result[1].success
                       THEN 0 ELSE 1

\* the posts in the forum file
PostsIn(file) == SelectSeq(file, LAMBDA x : x.item = "post")

\* C27: in parse_topic_streaming the records appended to the sink are, page by
\* page in the order fetched, the records of each page that were written, in
\* extraction order, and the count returned is their number; in
\* parse_entire_forum each topic's header comes before the topic's records and
\* after all records of the previous topic, and ParseResult.total_posts is the
\* number of records appended.
C27_StreamingOrderAndAccounting ==
    /\ kind = "parse_topic_streaming" =>
          /\ sink = gathered
          /\ total_posts = Len(sink)
          /\ t_pc = "done" => result.val = Len(sink)
    /\ out_file = expected_file
    /\ CrawlOver => parse_result[1].total_posts = Len(PostsIn(out_file))

\* C28: a topic that ends with zero posts or with an exception is recorded in
\* failed_topics and the crawl goes on with the next topic; once
\* MAX_CONSECUTIVE_FAILURES consecutive failures have accumulated the crawl
\* stops and no further topic is fetched.
C28_TopicFailuresAndBreaker ==
    /\ [][(o_pc = "streaming" /\ o_pc' = "topics" /\ result.val = 0) =>
            /\ failed_topics' = Append(failed_topics, topic_list[topic_i])
            /\ topic_i' = topic_i + 1]_vars
    /\ [][(o_pc = "topics" /\ o_pc' = "topics"
              /\ consecutive_failures < MAX_CONSECUTIVE_FAILURES) =>
            /\ failed_topics' = Append(failed_topics, topic_list[topic_i])
            /\ topic_i' = topic_i + 1]_vars
    /\ []((o_pc = "streaming" /\ fetches > 0) =>
            last.cf0 < MAX_CONSECUTIVE_FAILURES)

-----------------------------------------------------------------------------
(* Claims about the interrupt flag and the failure counter, checked under Spec *)

HasRecord(k, pg) ==
    IF k = "parse_forum" THEN DOMAIN pg.recs # {}
    ELSE \E i \in 1..Len(pg.recs) : pg.recs[i].ok

\* C29: consecutive_failures is reset to 0 only by a page that yielded at least
\* one record: a step of a traversal that changes it either adds one failure
\* or is the processing of such a page, and the processing of a page that
\* yielded no record leaves it as it was.
C29_ResetOnlyByYieldingPage ==
    /\ [][consecutive_failures' # consecutive_failures =>
            \/ consecutive_failures' = consecutive_failures + 1
            \/ /\ consecutive_failures' = 0
               /\ \E pg \in PAGES(kind) :
                     HasRecord(kind, pg) /\ PageProcessed(pg)]_vars
    /\ [][\A pg \in PAGES(kind) :
             (PageProcessed(pg) /\ ~HasRecord(kind, pg)) =>
                 consecutive_failures' = consecutive_failures]_vars

\* after two failed pages a page with records brought the counter back to 0
C29_Witness ==
    /\ last.ev = "ok"
    /\ last.cf0 = 2
    /\ consecutive_failures = 0
    /\ page_count = 3

\* the last iteration processed its page and slept before the next request
SleptAfterPage == t_pc = "loop" /\ last.ev = "ok"

\* C30: the delay between two requests of a traversal, listing or topic, is
\* DELAY_BETWEEN_REQUESTS * (1 + 0.5 * consecutive_failures) while
\* consecutive_failures > 0, is below DELAY_BETWEEN_REQUESTS only after five
\* consecutive clean pages, and is never below 0.5 s.
C30_AdaptiveDelay ==
    SleptAfterPage =>
        /\ last.delay >= 500
        /\ consecutive_failures > 0 =>
               last.delay = (DELAY_BETWEEN_REQUESTS * (2 + consecutive_failures)) \div 2
        /\ last.delay < DELAY_BETWEEN_REQUESTS =>
               /\ page_count > 5
               /\ \A i \in 1..Len(failed_pages) : failed_pages[i] <= page_count - 5

-----------------------------------------------------------------------------
(* Further claims about MemoryCache, checked under SpecCache *)

\* the entries of the map c as a set
Entries(c) == {c[i] : i \in 1..Len(c)}

\* C37: when put inserts a new key into a full cache that holds at least one
\* expired entry, every expired entry is removed and no unexpired entry is
\* evicted, whichever entry is the least recently used.
C37_ExpiredEvictedBeforeLive ==
    [][(/\ Len(cache) >= max_size
        /\ \E i \in 1..Len(cache) : is_expired(cache[i], now)
        /\ c_call'.op = "put"
        /\ \E k \in KEYS \ CacheKeys(cache), ttl \in TtlArgs :
              \E v \in VALUES(k) : Put(k, v, ttl))
       => \A i \in 1..Len(cache) :
             IF is_expired(cache[i], now)
             THEN cache[i].key \notin CacheKeys(cache')
             ELSE cache[i] \in Entries(cache')]_vars

\* the last call was a put of a new key into a full map whose oldest entry
\* was unexpired and which held exactly one expired entry: the map is full
\* again, with the new key at its end
C37_Witness ==
    /\ c_call.op = "put"
    /\ ~c_call.had_key
    /\ c_call.full0
    /\ c_call.expired0
    /\ c_call.head_live0
    /\ Len(cache) = max_size
    /\ cache[Len(cache)].key = c_call.key

\* the entries of c other than that of k, in their order
Others(c, k) == SelectSeq(c, LAMBDA e : e.key # k)

\* C38: get(k) changes nothing about any other key (presence, value, creation
\* time, relative order); a hit moves k to the end of the order and leaves its
\* creation time and ttl as they were; a get on an expired k removes it; and
\* the passing of time alone removes nothing, so that an expired entry stays
\* in the map until a get on its own key or a put.
C38_GetIsLocalExpiryLazy ==
    /\ [][\A k \in KEYS :
             (c_call'.op = "get" /\ Get(k)) =>
                 /\ Others(cache', k) = Others(cache, k)
                 /\ get_ret(cache, k, now) # <<>> =>
                        cache'[Len(cache')] = cache[IndexOf(cache, k)]
                 /\ get_ret(cache, k, now) = <<>> => k \notin CacheKeys(cache')]_vars
    /\ [][Tick => cache' = cache]_vars

\* the keys of the map c in its order
KeyOrder(c) == [i \in 1..Len(c) |-> c[i].key]

\* the last call was a get, the map is in the order of use and its last entry
\* is older than an entry before it, so that a hit moved it there; another
\* entry is expired and still in the map
C38_Witness ==
    /\ c_call.op = "get"
    /\ KeyOrder(cache) = use_order
    /\ \E i \in 1..Len(cache) : cache[i].timestamp > cache[Len(cache)].timestamp
    /\ \E i \in 1..Len(cache) : is_expired(cache[i], now)
    /\ ~is_expired(cache[Len(cache)], now)

\* C39: a put of a key that is already in the map replaces its value, creation
\* time and ttl, makes it the most recently used entry, and evicts no other
\* unexpired entry, the full cache included.
C39_RePutReplacesInPlace ==
    [][\A k \in CacheKeys(cache), ttl \in TtlArgs : \A v \in VALUES(k) :
          (c_call'.op = "put" /\ Put(k, v, ttl))
          => /\ cache'[Len(cache')] =
                   [key |-> k, data |-> v, timestamp |-> now,
                    ttl |-> effective_ttl(ttl)]
             /\ \A i \in 1..Len(cache) :
                   (cache[i].key # k /\ ~is_expired(cache[i], now))
                       => cache[i] \in Entries(cache')]_vars

-----------------------------------------------------------------------------
(* Further claims about get_page, checked under SpecFetch *)

\* this step is the call of get_page
IsCall == calls' = calls + 1

\* C35: a get_page(url, use_cache=True) that finds an unexpired cached page
\* returns it without invoking the transport and adds exactly 1 to
\* total_requests, successful_requests and cached_requests; an entry enters the
\* cache only when the transport returned a page, and it is that page under
\* the url of the call; and after a get_page(url, use_cache=True) that failed,
\* the next get_page for the same url invokes the transport.
C35_CachePath ==
    /\ [][(/\ IsCall
           /\ f_args'.use_cache
           /\ get_ret(cache, get_cache_key(f_args'.url), now) # <<>>)
          => /\ f_pc' = "idle"
             /\ f_ret'.kind = "page"
             /\ f_ret'.soup = get_ret(cache, get_cache_key(f_args'.url), now)
             /\ retry'.invocations = 0
             /\ metrics' = [metrics EXCEPT !.total_requests = @ + 1,
                                           !.successful_requests = @ + 1,
                                           !.cached_requests = @ + 1]]_vars
    /\ [][\A e \in Entries(cache') \ Entries(cache) :
             /\ retry'.out = "returned"
             /\ f_ret'.kind = "page"
             /\ f_ret'.soup = <<e.data>>
             /\ e.key = get_cache_key(f_args.url)]_vars
    /\ [][(/\ IsCall
           /\ calls >= 1
           /\ f_args.use_cache
           /\ f_ret.kind \in {"None", "raised"}
           /\ f_args'.url = f_args.url)
          => f_pc' = "invoke"]_vars

\* the second call was served from the cache: no invocation, one cached request
C35_Witness ==
    /\ calls = 2
    /\ f_pc = "idle"
    /\ f_args.use_cache
    /\ f_ret.kind = "page"
    /\ retry.invocations = 0
    /\ metrics.total_requests = 2
    /\ metrics.successful_requests = 2
    /\ metrics.cached_requests = 1

\* C36: get_page(url, use_cache=False) neither reads nor modifies the cache: the
\* call goes to the transport, and no step of the call, successful or not,
\* changes the contents or the order of the cache.
C36_NoCacheCallLeavesCache ==
    [][~f_args'.use_cache =>
          /\ cache' = cache
          /\ IsCall => f_pc' = "invoke"]_vars

\* a call with use_cache=False fetched a page from the transport while the
\* cache held an unexpired page for the same url, and the cache has no more
\* than that entry
C36_Witness ==
    /\ calls = 2
    /\ f_pc = "idle"
    /\ ~f_args.use_cache
    /\ f_ret.kind = "page"
    /\ retry.invocations >= 1
    /\ get_ret(cache, get_cache_key(f_args.url), now) # <<>>
    /\ Len(cache) = 1

-----------------------------------------------------------------------------
(* Claim about the --no-cache option, checked under SpecNoCache *)

\* C34: in a run started with --no-cache no get_page call is served from the
\* cache: metrics.cached_requests stays 0, and the second fetch of a url goes
\* to the transport like the first.
C34_NoCacheOptionDisablesCache ==
    no_cache => metrics.cached_requests = 0

-----------------------------------------------------------------------------
(* Claim about extract_topic_links, checked under SpecExtract *)

\* C40: whatever pages one OptimizedHtmlParser processed before,
\* extract_topic_links(page) returns the topic mapping of the page it is given,
\* also for two different pages that share their leading markup.
C40_ExtractionDependsOnPageOnly ==
    p_call.fn = "extract_topic_links" => p_call.ret = p_call.soup.topics

-----------------------------------------------------------------------------
(* Claims about OptimizedPaginationHandler, checked under SpecPagination *)

\* C31: get_total_topic_pages returns the Y of the "page X of Y" indicator
\* when the page has one, otherwise the maximum numeric link text of the
\* pagination control, and 1 when there is no pagination control; it never
\* returns a value below 1.
C31_TotalPagesAtLeastOne ==
    p_call.fn = "get_total_topic_pages" =>
        /\ p_call.ret >= 1
        /\ p_call.ret = IF ~p_call.soup.pagination THEN 1
                        ELSE IF p_call.soup.info # <<>> THEN p_call.soup.info[2]
                        ELSE max_page(p_call.soup.links)

\* the current page and the page count as C32 states them: the indicator, else
\* the page of the offset parameter (the first page when there is none) and
\* the maximum numeric link text
stated_page_info(soup, cur_url, per) ==
    IF soup.info # <<>> THEN soup.info
    ELSE << IF cur_url.start # <<>> THEN (cur_url.start[1] \div per) + 1 ELSE 1,
            max_page(soup.links) >>

\* pagination by page number as C32 states it
stated_next_by_number(soup, cur_url, e, per) ==
    IF ~soup.pagination THEN <<>>
    ELSE LET page_info == stated_page_info(soup, cur_url, per)
         IN IF page_info[1] >= page_info[2] THEN <<>>
            ELSE FirstHref(SelectSeq(soup.links,
                                     LAMBDA l : /\ isdigit(l.text)
                                                /\ int(l.text) = page_info[1] + 1
                                                /\ l.href.endpoint = e))

\* the endpoint and the page size of the resolver fn
EndpointOf(fn) ==
    IF fn = "get_next_page_url" THEN "viewforum.php" ELSE "viewtopic.php"
PerPageOf(fn) ==
    IF fn = "get_next_page_url" THEN TOPICS_PER_PAGE ELSE POSTS_PER_PAGE

\* C32: on a page without an explicit next link a resolver returns absent when
\* the current page index is at or past the page count, and otherwise the
\* pagination link whose text is current_page + 1 and whose target has the
\* endpoint of the resolver; the current page comes from the indicator, else
\* from the offset parameter, and a first page without offset parameter
\* advances to page 2 when the pagination control links to it.
C32_NextByNumber ==
    (/\ p_call.fn \in {"get_next_page_url", "get_next_topic_page_url"}
     /\ \A i \in 1..Len(p_call.soup.links) :
           ~is_next_text(p_call.soup.links[i].text))
    => p_call.ret = stated_next_by_number(p_call.soup, p_call.url,
                                          EndpointOf(p_call.fn),
                                          PerPageOf(p_call.fn))

\* the topic URL and the topic page that correspond to a listing URL and a
\* listing page: the endpoint marker exchanged, the offsets in the other
\* page size
to_topic_url(u) ==
    Url(IF u.endpoint = "viewforum.php" THEN "viewtopic.php" ELSE u.endpoint,
        IF u.start = <<>> THEN <<>>
        ELSE <<(u.start[1] \div TOPICS_PER_PAGE) * POSTS_PER_PAGE>>)
to_topic_soup(soup) ==
    [soup EXCEPT !.links =
        [i \in 1..Len(soup.links) |->
            Link(soup.links[i].text, to_topic_url(soup.links[i].href))]]

\* C33: the listing resolver and the topic resolver are one algorithm up to
\* the endpoint marker and the page size: whatever calls came before,
\* get_next_page_url(page, url) returns what get_next_topic_page_url returns
\* for the corresponding topic page and URL, so that its result depends on
\* the page and the URL of the call only.
C33_ResolversCorrespond ==
    p_call.fn = "get_next_page_url" =>
        LET r == next_topic_page_url(to_topic_soup(p_call.soup),
                                     to_topic_url(p_call.url))
        IN IF r = <<>> THEN p_call.ret = <<>>
           ELSE p_call.ret # <<>> /\ to_topic_url(p_call.ret[1]) = r[1]

====
